---- MODULE Spec2Model ----
(***************************************************************************)
(* Model of the P&L calendar's statistics engine                           *)
(* (src/src/utils/calculations.ts).  The engine is a library of pure       *)
(* functions over a collection of DayEntry records; every function is an   *)
(* operator computed the way the code computes it, and one action per      *)
(* function applies it to the collection held in `entries`.  `op` is the   *)
(* function called ("init" before the call), `args` its parameters besides *)
(* the collection, `result` what it returned, and `again` holds what a     *)
(* second invocation with the same arguments returned.  `gate` is the      *)
(* state of the password gate in front of the application                  *)
(* (PasswordProtection, mounted by App once useFirebaseData has loaded).   *)
(* `hook` is the data side of useFirebaseData: the documents of the store, *)
(* the settings it holds and its calls in flight.                          *)
(*                                                                         *)
(* JavaScript numbers are modelled as exact fractions [n, d] with d > 0,   *)
(* extended with d = 0 for +Infinity (n = 1), -Infinity (n = -1) and NaN   *)
(* (n = 0).  A number also carries its magnitude e: it is                  *)
(* (n / d) * MAX_VALUE^e, with e = 0 for the ordinary numbers, e = 1 for   *)
(* the numbers of the magnitude of Number.MAX_VALUE and e = -1 for their   *)
(* reciprocals, so that a sum or product beyond MAX_VALUE overflows to an  *)
(* infinity.  IEEE-754 rounding and the sign of zero are not modelled.     *)
(***************************************************************************)
EXTENDS Integers, Sequences, FiniteSets, TLC

VARIABLES entries, op, args, result, again, gate, hook

vars == <<entries, op, args, result, again, gate, hook>>

(***************************************************************************)
(* Bounds of the model.                                                    *)
(***************************************************************************)
MaxLen == 3

MaxLongLen == 100

MaxLenAll == 2
MaxPasswordLen == 5

(***************************************************************************)
(* JavaScript numbers.                                                     *)
(***************************************************************************)
Abs(x) == IF x < 0 THEN -x ELSE x

Sign(x) == IF x > 0 THEN 1 ELSE IF x < 0 THEN -1 ELSE 0

RECURSIVE GCD(_, _)
GCD(a, b) == IF b = 0 THEN a ELSE GCD(b, a % b)

\* (n / d) * MAX_VALUE^e in lowest terms, for a largest exponent k: a value
\* beyond MAX_VALUE^k is +-Infinity (overflow) and one below MAX_VALUE^-k is
\* 0 (underflow)
Scaled(n, d, e, k) ==
  IF d = 0 THEN [n |-> Sign(n), d |-> 0, e |-> 0]
  ELSE IF n = 0 \/ e < -k THEN [n |-> 0, d |-> 1, e |-> 0]
  ELSE IF e > k \/ (e = k /\ Abs(n) > Abs(d))
  THEN [n |-> Sign(n) * Sign(d), d |-> 0, e |-> 0]
  ELSE LET g == GCD(Abs(n), Abs(d))
           s == Sign(d)
       IN  [n |-> (s * n) \div g, d |-> (s * d) \div g, e |-> e]

Rat(n, d) == Scaled(n, d, 0, 1)

Num(i) == [n |-> i, d |-> 1, e |-> 0]

Zero == Num(0)

Infinity == [n |-> 1, d |-> 0, e |-> 0]

NaN == [n |-> 0, d |-> 0, e |-> 0]

\* Number.MAX_VALUE, the largest finite number
MAX_VALUE == [n |-> 1, d |-> 1, e |-> 1]

IsNaN(a) == a.n = 0 /\ a.d = 0

IsFinite(a) == a.d # 0

\* a + b: the sum of two numbers of different magnitudes is the larger one
Add(a, b) ==
  IF a.d = 0 /\ b.d = 0 THEN (IF a.n = b.n THEN a ELSE NaN)
  ELSE IF a.d = 0 \/ b.d = 0 THEN Scaled(a.n * b.d + b.n * a.d, 0, 0, 1)
  ELSE IF a.e = b.e THEN Scaled(a.n * b.d + b.n * a.d, a.d * b.d, a.e, 1)
  ELSE IF a.n = 0 THEN b
  ELSE IF b.n = 0 THEN a
  ELSE IF a.e > b.e THEN a
  ELSE b

Neg(a) == [a EXCEPT !.n = -a.n]

Sub(a, b) == Add(a, Neg(b))

Mul(a, b) ==
  IF a.d = 0 \/ b.d = 0 THEN Scaled(a.n * b.n, 0, 0, 1)
  ELSE Scaled(a.n * b.n, a.d * b.d, a.e + b.e, 1)

\* a / b
Div(a, b) ==
  IF b.d = 0 THEN (IF b.n = 0 \/ a.d = 0 THEN NaN ELSE Zero)
  ELSE IF b.n = 0 THEN Scaled(a.n, 0, 0, 1)
  ELSE IF a.d = 0 THEN Scaled(a.n * Sign(b.n), 0, 0, 1)
  ELSE Scaled(a.n * b.d, a.d * b.n, a.e - b.e, 1)

\* a < b
Lt(a, b) ==
  /\ ~IsNaN(a)
  /\ ~IsNaN(b)
  /\ IF a.d # 0 /\ b.d # 0
     THEN (IF Sign(a.n) # Sign(b.n) THEN Sign(a.n) < Sign(b.n)
           ELSE IF a.e = b.e THEN a.n * b.d < b.n * a.d
           ELSE IF a.n > 0 THEN a.e < b.e
           ELSE a.e > b.e)
     ELSE IF a.d = 0 /\ b.d = 0 THEN a.n < b.n
     ELSE IF a.d = 0 THEN a.n < 0
     ELSE b.n > 0

\* a > b
Gt(a, b) == Lt(b, a)

\* a === b
StrictEq(a, b) == ~IsNaN(a) /\ ~IsNaN(b) /\ a = b

\* a <= b, a >= b
Le(a, b) == Lt(a, b) \/ StrictEq(a, b)

Ge(a, b) == Le(b, a)

\* the larger of x and y in place of x || y
OrElseAtLeast(x, y) == IF IsNaN(x) \/ Lt(x, y) THEN y ELSE x

\* x || y on numbers: 0 and NaN are falsy
OrElse(x, y) == IF IsNaN(x) \/ x = Zero THEN y ELSE x

MathAbs(a) == [a EXCEPT !.n = Abs(a.n)]

\* Math.floor of a finite number that is not of the magnitude of MAX_VALUE
MathFloor(a) == a.n \div a.d

(***************************************************************************)
(* Strings are sequences of one-character strings, so that split, Number   *)
(* and localeCompare act on the characters of an id.                       *)
(***************************************************************************)
Digits == <<"0", "1", "2", "3", "4", "5", "6", "7", "8", "9">>

\* the collation rank of a character: "-" sorts before every digit
CharRank(c) ==
  IF c = "-" THEN 0
  ELSE (CHOOSE i \in 1..10 : Digits[i] = c)

\* a.localeCompare(b)
RECURSIVE localeCompare(_, _)
localeCompare(a, b) ==
  IF a = <<>> /\ b = <<>> THEN 0
  ELSE IF a = <<>> THEN -1
  ELSE IF b = <<>> THEN 1
  ELSE IF CharRank(Head(a)) < CharRank(Head(b)) THEN -1
  ELSE IF CharRank(Head(a)) > CharRank(Head(b)) THEN 1
  ELSE localeCompare(Tail(a), Tail(b))

\* str.split('-')
split(str) ==
  LET RECURSIVE SplitDash(_, _)
      SplitDash(s, cur) ==
        IF s = <<>> THEN <<cur>>
        ELSE IF Head(s) = "-" THEN <<cur>> \o SplitDash(Tail(s), <<>>)
        ELSE SplitDash(Tail(s), Append(cur, Head(s)))
  IN  SplitDash(str, <<>>)

\* Number(str) of a string of decimal digits
Number(str) ==
  LET RECURSIVE DigitsValue(_, _)
      DigitsValue(s, acc) ==
        IF s = <<>> THEN acc
        ELSE DigitsValue(Tail(s), 10 * acc + (CharRank(Head(s)) - 1))
  IN  DigitsValue(str, 0)

(***************************************************************************)
(* Date objects of the local calendar: a Date built by                     *)
(* new Date(year, monthIndex, day) is the count of days since 1970-01-01   *)
(* (a Thursday), which normalises out-of-range days as the runtime does.   *)
(***************************************************************************)
DaysFromCivil(y, m, d) ==
  LET yy == IF m <= 2 THEN y - 1 ELSE y
      era == yy \div 400
      yoe == yy - era * 400
      mp == (m + 9) % 12
      doy == (153 * mp + 2) \div 5 + d - 1
      doe == yoe * 365 + yoe \div 4 - yoe \div 100 + doy
  IN  era * 146097 + doe - 719468

CivilFromDays(z) ==
  LET zz == z + 719468
      era == zz \div 146097
      doe == zz - era * 146097
      yoe == (doe - doe \div 1460 + doe \div 36524 - doe \div 146096) \div 365
      doy == doe - (365 * yoe + yoe \div 4 - yoe \div 100)
      mp == (5 * doy + 2) \div 153
      d == doy - (153 * mp + 2) \div 5 + 1
      m == IF mp < 10 THEN mp + 3 ELSE mp - 9
      y == yoe + era * 400 + (IF m <= 2 THEN 1 ELSE 0)
  IN  [year |-> y, month |-> m, day |-> d]

\* new Date(year, monthIndex, day), monthIndex 0-based
NewDate(year, monthIndex, day) ==
  DaysFromCivil(year + monthIndex \div 12, (monthIndex % 12) + 1, 1) + day - 1

\* date.getDay(): 0 = Sunday .. 6 = Saturday
getDay(date) == (date + 4) % 7

getFullYear(date) == CivilFromDays(date).year

\* date.getMonth(), 0-based
getMonth(date) == CivilFromDays(date).month - 1

getDate(date) == CivilFromDays(date).day

parseDateString(dateStr) ==
  LET parts == split(dateStr)
      year == Number(parts[1])
      month == Number(parts[2])
      day == Number(parts[3])
  IN  NewDate(year, month - 1, day)

(***************************************************************************)
(* DayEntry records (src/src/types.ts).  fallingKnives is optional: a      *)
(* record without the field models an entry where it is undefined.         *)
(***************************************************************************)
Trade(symbol, percentReturn) ==
  [symbol |-> symbol, percentReturn |-> percentReturn]

DayEntry(id, totalPL, trades, numberOfTrades, tags) ==
  [id |-> id, totalPL |-> totalPL, trades |-> trades,
   numberOfTrades |-> numberOfTrades, notes |-> "", tags |-> tags]

WithFallingKnives(e, k) ==
  [f \in DOMAIN e \cup {"fallingKnives"} |->
     IF f = "fallingKnives" THEN k ELSE e[f]]

\* entry.fallingKnives || 0
fallingKnivesOrZero(e) ==
  IF "fallingKnives" \in DOMAIN e THEN OrElse(e.fallingKnives, Zero) ELSE Zero

(***************************************************************************)
(* Array helpers.                                                          *)
(***************************************************************************)
\* [...s].sort(compare): a stable sort of a copy; cmp[i][j] is the sign of
\* compare(s[i], s[j])
sort(s, cmp) ==
  LET n == Len(s)
      rank == [i \in 1..n |->
                 Cardinality({j \in 1..n :
                    \/ cmp[j][i] < 0
                    \/ (cmp[j][i] = 0 /\ j < i)}) + 1]
  IN  [k \in 1..n |-> s[CHOOSE i \in 1..n : rank[i] = k]]

\* [...s].sort((a, b) => a.id.localeCompare(b.id))
sortByIdAsc(s) ==
  sort(s, [i \in 1..Len(s) |->
             [j \in 1..Len(s) |-> localeCompare(s[i].id, s[j].id)]])

\* [...s].sort((a, b) => b.id.localeCompare(a.id))
sortByIdDesc(s) ==
  sort(s, [i \in 1..Len(s) |->
             [j \in 1..Len(s) |-> localeCompare(s[j].id, s[i].id)]])

\* entries.reduce((sum, e) => sum + e.totalPL, 0)
SumTotalPL(es) ==
  LET RECURSIVE SumFrom(_, _)
      SumFrom(s, sum) ==
        IF s = <<>> THEN sum ELSE SumFrom(Tail(s), Add(sum, Head(s).totalPL))
  IN  SumFrom(es, Zero)

\* entries.reduce((sum, e) => sum + e.numberOfTrades, 0)
SumNumberOfTrades(es) ==
  LET RECURSIVE SumTradesFrom(_, _)
      SumTradesFrom(s, sum) ==
        IF s = <<>> THEN sum
        ELSE SumTradesFrom(Tail(s), Add(sum, Head(s).numberOfTrades))
  IN  SumTradesFrom(es, Zero)

IsWin(e) == Gt(e.totalPL, Zero)

IsLoss(e) == Lt(e.totalPL, Zero)

\* e => e.totalPL !== 0
IsTradingDay(e) == ~StrictEq(e.totalPL, Zero)

(***************************************************************************)
(* The engine (src/src/utils/calculations.ts).                             *)
(***************************************************************************)
OutlierThreshold == 10000

\* <= in place of <
BelowOutlierGe(e) == Le(e.totalPL, Num(OutlierThreshold))

BelowOutlier(e) == Lt(e.totalPL, Num(OutlierThreshold))

filterOutliers(es) == SelectSeq(es, BelowOutlier)

\* reduce called without its initial value: the first entry is not added
CumulativeWithoutInitial(es) ==
  IF es = <<>> THEN Zero ELSE SumTotalPL(Tail(es))

calculateCumulativePL(es) ==
  SumTotalPL(es)

\* the days with totalPL = 0 left in the denominator
WinRateAllDays(es) ==
  LET wins == Len(SelectSeq(es, IsWin))
  IN  IF Len(es) = 0 THEN Zero
      ELSE Mul(Div(Num(wins), Num(Len(es))), Num(100))

calculateWinRate(es) ==
  LET tradingDays == SelectSeq(es, IsTradingDay)
      wins == Len(SelectSeq(tradingDays, IsWin))
  IN  IF Len(tradingDays) = 0 THEN Zero
      ELSE Mul(Div(Num(wins), Num(Len(tradingDays))), Num(100))

calculateAverageReturn(es) ==
  LET totalTrades == SumNumberOfTrades(es)
      totalPL == calculateCumulativePL(es)
  IN  IF StrictEq(totalTrades, Zero) THEN Zero
      ELSE Div(totalPL, totalTrades)

\* cumulative = entry.totalPL in place of cumulative += entry.totalPL
DrawdownStepNoAccumulate(st, entry) ==
  LET cumulative == entry.totalPL
      peak == IF Gt(cumulative, st.peak) THEN cumulative ELSE st.peak
      drawdown == Mul(Div(Sub(peak, cumulative), OrElse(peak, Num(1))), Num(100))
  IN  [peak |-> peak,
       cumulative |-> cumulative,
       maxDrawdown |-> IF Gt(drawdown, st.maxDrawdown) THEN drawdown
                       ELSE st.maxDrawdown]

\* maxDrawdown = drawdown at every step, in place of only when it is larger
DrawdownStepKeepsLatest(st, entry) ==
  LET cumulative == Add(st.cumulative, entry.totalPL)
      peak == IF Gt(cumulative, st.peak) THEN cumulative ELSE st.peak
      drawdown == Mul(Div(Sub(peak, cumulative), OrElse(peak, Num(1))), Num(100))
  IN  [peak |-> peak,
       cumulative |-> cumulative,
       maxDrawdown |-> drawdown]

\* one step of the forEach of calculateMaxDrawdown
DrawdownStep(st, entry) ==
  LET cumulative == Add(st.cumulative, entry.totalPL)
      peak == IF Gt(cumulative, st.peak) THEN cumulative ELSE st.peak
      drawdown == Mul(Div(Sub(peak, cumulative), OrElse(peak, Num(1))), Num(100))
  IN  [peak |-> peak,
       cumulative |-> cumulative,
       maxDrawdown |-> IF Gt(drawdown, st.maxDrawdown) THEN drawdown
                       ELSE st.maxDrawdown]

calculateMaxDrawdown(es) ==
  LET sortedEntries == sortByIdAsc(es)
      RECURSIVE DrawdownWalk(_, _)
      DrawdownWalk(s, st) ==
        IF s = <<>> THEN st
        ELSE DrawdownWalk(Tail(s), DrawdownStep(st, Head(s)))
  IN  DrawdownWalk(sortedEntries, [peak |-> Zero, cumulative |-> Zero,
                                   maxDrawdown |-> Zero]).maxDrawdown

\* without the guard on losses === 0
ProfitFactorNoGuard(es) ==
  LET profits == SumTotalPL(SelectSeq(es, IsWin))
      losses == MathAbs(SumTotalPL(SelectSeq(es, IsLoss)))
  IN  Div(profits, losses)

calculateProfitFactor(es) ==
  LET profits == SumTotalPL(SelectSeq(es, IsWin))
      losses == MathAbs(SumTotalPL(SelectSeq(es, IsLoss)))
  IN  IF StrictEq(losses, Zero)
      THEN (IF Gt(profits, Zero) THEN Infinity ELSE Zero)
      ELSE Div(profits, losses)

(***************************************************************************)
(* Square roots.  A result that involves Math.sqrt is kept exactly as      *)
(* sgn * sqrt(sq), with sq a number >= 0 and sgn the sign of the value.    *)
(***************************************************************************)
Surd(sgn, sq) == [sgn |-> sgn, sq |-> sq]

\* a number as a surd; the square of a number of the magnitude of MAX_VALUE
\* is kept under the root
SurdOfNum(x) ==
  IF x.d = 0 THEN Surd(Sign(x.n), Mul(x, x))
  ELSE Surd(Sign(x.n), Scaled(x.n * x.n, x.d * x.d, 2 * x.e, 2))

\* Math.sqrt(v), v >= 0
MathSqrt(v) == Surd(Sign(v.n), v)

SurdMul(a, b) ==
  IF a.sq.d = 0 \/ b.sq.d = 0 THEN Surd(a.sgn * b.sgn, Mul(a.sq, b.sq))
  ELSE Surd(a.sgn * b.sgn,
            Scaled(a.sq.n * b.sq.n, a.sq.d * b.sq.d, a.sq.e + b.sq.e, 2))

\* x / s for a number x and a surd s
NumDivSurd(x, s) ==
  IF IsNaN(x) \/ IsNaN(s.sq) THEN Surd(0, NaN)
  ELSE IF s.sq.d = 0 THEN (IF x.d = 0 THEN Surd(0, NaN) ELSE Surd(0, Zero))
  ELSE IF s.sq.n = 0 THEN (IF x.n = 0 THEN Surd(0, NaN)
                           ELSE Surd(Sign(x.n), Infinity))
  ELSE IF x.d = 0 THEN Surd(Sign(x.n) * s.sgn, Infinity)
  ELSE Surd(Sign(x.n) * s.sgn,
            Scaled(x.n * x.n * s.sq.d, x.d * x.d * s.sq.n,
                   2 * x.e - s.sq.e, 2))

AnnualizationDays == 252

\* s.map(e => e.totalPL)
Returns(s) == [i \in 1..Len(s) |-> s[i].totalPL]

RECURSIVE SumNums(_, _)
SumNums(s, sum) == IF s = <<>> THEN sum ELSE SumNums(Tail(s), Add(sum, Head(s)))

\* returns.reduce((sum, r) => sum + Math.pow(r - mean, 2), 0)
RECURSIVE SumSqDev(_, _, _)
SumSqDev(s, mean, sum) ==
  IF s = <<>> THEN sum
  ELSE SumSqDev(Tail(s), mean,
                Add(sum, Mul(Sub(Head(s), mean), Sub(Head(s), mean))))

\* without the early return on an empty collection
SharpeNoEmptyGuard(es) ==
  LET sortedEntries == sortByIdAsc(es)
      returns == Returns(sortedEntries)
      mean == Div(SumNums(returns, Zero), Num(Len(returns)))
      variance == Div(SumSqDev(returns, mean, Zero), Num(Len(returns)))
      stdDev == MathSqrt(variance)
  IN  IF stdDev.sgn = 0 /\ ~IsNaN(stdDev.sq) THEN SurdOfNum(Zero)
      ELSE SurdMul(NumDivSurd(mean, stdDev), MathSqrt(Num(AnnualizationDays)))

calculateSharpeRatio(es) ==
  LET sortedEntries == sortByIdAsc(es)
      returns == Returns(sortedEntries)
      mean == Div(SumNums(returns, Zero), Num(Len(returns)))
      variance == Div(SumSqDev(returns, mean, Zero), Num(Len(returns)))
      stdDev == MathSqrt(variance)
  IN  IF Len(sortedEntries) = 0 THEN SurdOfNum(Zero)
      ELSE IF stdDev.sgn = 0 /\ ~IsNaN(stdDev.sq) THEN SurdOfNum(Zero)
      ELSE SurdMul(NumDivSurd(mean, stdDev), MathSqrt(Num(AnnualizationDays)))

\* the downside variance over the number of downside returns
SortinoOverDownsideCount(es) ==
  LET sortedEntries == sortByIdAsc(es)
      returns == Returns(sortedEntries)
      mean == Div(SumNums(returns, Zero), Num(Len(returns)))
      BelowMean(r) == Lt(r, mean)
      downsideReturns == SelectSeq(returns, BelowMean)
      downsideVariance ==
        Div(SumSqDev(downsideReturns, mean, Zero), Num(Len(downsideReturns)))
      downsideDeviation == MathSqrt(downsideVariance)
  IN  IF Len(sortedEntries) = 0 THEN SurdOfNum(Zero)
      ELSE IF Len(downsideReturns) = 0
      THEN (IF Gt(mean, Zero) THEN SurdOfNum(Infinity) ELSE SurdOfNum(Zero))
      ELSE IF downsideDeviation.sgn = 0 /\ ~IsNaN(downsideDeviation.sq)
      THEN (IF Gt(mean, Zero) THEN SurdOfNum(Infinity) ELSE SurdOfNum(Zero))
      ELSE SurdMul(NumDivSurd(mean, downsideDeviation),
                   MathSqrt(Num(AnnualizationDays)))

calculateSortinoRatio(es) ==
  LET sortedEntries == sortByIdAsc(es)
      returns == Returns(sortedEntries)
      mean == Div(SumNums(returns, Zero), Num(Len(returns)))
      BelowMean(r) == Lt(r, mean)
      downsideReturns == SelectSeq(returns, BelowMean)
      downsideVariance ==
        Div(SumSqDev(downsideReturns, mean, Zero), Num(Len(returns)))
      downsideDeviation == MathSqrt(downsideVariance)
  IN  IF Len(sortedEntries) = 0 THEN SurdOfNum(Zero)
      ELSE IF Len(downsideReturns) = 0
      THEN (IF Gt(mean, Zero) THEN SurdOfNum(Infinity) ELSE SurdOfNum(Zero))
      ELSE IF downsideDeviation.sgn = 0 /\ ~IsNaN(downsideDeviation.sq)
      THEN (IF Gt(mean, Zero) THEN SurdOfNum(Infinity) ELSE SurdOfNum(Zero))
      ELSE SurdMul(NumDivSurd(mean, downsideDeviation),
                   MathSqrt(Num(AnnualizationDays)))

(***************************************************************************)
(* Maps keep their keys in insertion order: a sequence of [key, val].      *)
(***************************************************************************)
MapHas(m, key) == \E i \in 1..Len(m) : m[i].key = key

MapGet(m, key) == m[CHOOSE i \in 1..Len(m) : m[i].key = key].val

MapSet(m, key, val) ==
  IF MapHas(m, key)
  THEN [i \in 1..Len(m) |->
          IF m[i].key = key THEN [key |-> key, val |-> val] ELSE m[i]]
  ELSE Append(m, [key |-> key, val |-> val])

\* rows.sort((a, b) => b.pl - a.pl)
sortByPlDesc(s) ==
  sort(s, [i \in 1..Len(s) |->
             [j \in 1..Len(s) |-> Sign(Sub(s[j].pl, s[i].pl).n)]])

\* every trade is credited with the whole totalPL of its day
PLByTickerUndivided(es) ==
  LET \* the inner forEach over the trades of one entry
      RECURSIVE TickerTrades(_, _, _)
      TickerTrades(trades, entry, map) ==
        IF trades = <<>> THEN map
        ELSE LET trade == Head(trades)
                 current == IF MapHas(map, trade.symbol)
                            THEN MapGet(map, trade.symbol)
                            ELSE [pl |-> Zero, trades |-> 0]
             IN  TickerTrades(Tail(trades), entry,
                   MapSet(map, trade.symbol,
                     [pl |-> Add(current.pl, entry.totalPL),
                      trades |-> current.trades + 1]))
      RECURSIVE TickerEntries(_, _)
      TickerEntries(s, map) ==
        IF s = <<>> THEN map
        ELSE TickerEntries(Tail(s), TickerTrades(Head(s).trades, Head(s), map))
      tickerMap == TickerEntries(es, <<>>)
      rows == [i \in 1..Len(tickerMap) |->
                 [ticker |-> tickerMap[i].key, pl |-> tickerMap[i].val.pl,
                  trades |-> tickerMap[i].val.trades]]
  IN  sortByPlDesc(rows)

getPLByTicker(es) ==
  LET \* the inner forEach over the trades of one entry
      RECURSIVE TickerTrades(_, _, _)
      TickerTrades(trades, entry, map) ==
        IF trades = <<>> THEN map
        ELSE LET trade == Head(trades)
                 current == IF MapHas(map, trade.symbol)
                            THEN MapGet(map, trade.symbol)
                            ELSE [pl |-> Zero, trades |-> 0]
             IN  TickerTrades(Tail(trades), entry,
                   MapSet(map, trade.symbol,
                     [pl |-> Add(current.pl,
                                 Div(entry.totalPL, Num(Len(entry.trades)))),
                      trades |-> current.trades + 1]))
      RECURSIVE TickerEntries(_, _)
      TickerEntries(s, map) ==
        IF s = <<>> THEN map
        ELSE TickerEntries(Tail(s), TickerTrades(Head(s).trades, Head(s), map))
      tickerMap == TickerEntries(es, <<>>)
      rows == [i \in 1..Len(tickerMap) |->
                 [ticker |-> tickerMap[i].key, pl |-> tickerMap[i].val.pl,
                  trades |-> tickerMap[i].val.trades]]
  IN  sortByPlDesc(rows)

DayNames ==
  <<"Sunday", "Monday", "Tuesday", "Wednesday", "Thursday", "Friday",
    "Saturday">>

\* the forEach of getPLByDayOfWeek
RECURSIVE DayMapWalk(_, _)
DayMapWalk(es, dayMap) ==
  IF es = <<>> THEN dayMap
  ELSE LET entry == Head(es)
           date == parseDateString(entry.id)
           dayIndex == getDay(date)
           old == IF MapHas(dayMap, dayIndex)
                  THEN OrElse(MapGet(dayMap, dayIndex), Zero) ELSE Zero
       IN  DayMapWalk(Tail(es), MapSet(dayMap, dayIndex, Add(old, entry.totalPL)))

\* the rows read the map at 1..7 in place of 0..6
DayOfWeekSkipsSunday(es) ==
  LET dayMap == DayMapWalk(es, <<>>)
  IN  [index \in 1..Len(DayNames) |->
         [day |-> DayNames[index],
          pl |-> IF MapHas(dayMap, index) 
                 THEN OrElse(MapGet(dayMap, index), Zero) ELSE Zero]]

getPLByDayOfWeek(es) ==
  LET dayMap == DayMapWalk(es, <<>>)
  IN  [index \in 1..Len(DayNames) |->
         [day |-> DayNames[index],
          pl |-> IF MapHas(dayMap, index - 1)
                 THEN OrElse(MapGet(dayMap, index - 1), Zero) ELSE Zero]]

\* entry.trades.forEach(trade => allReturns.push(trade.percentReturn))
RECURSIVE getReturnDistribution(_)
getReturnDistribution(es) ==
  IF es = <<>> THEN <<>>
  ELSE [i \in 1..Len(Head(es).trades) |-> Head(es).trades[i].percentReturn]
       \o getReturnDistribution(Tail(es))

\* the mean of the totalPL of s, or 0 for an empty s
AvgOrZero(s) ==
  IF Len(s) > 0 THEN Div(SumTotalPL(s), Num(Len(s))) ELSE Zero

\* the rates taken over all days, the days with totalPL = 0 included
ExpectancyOverAllDays(es) ==
  LET wins == SelectSeq(es, IsWin)
      losses == SelectSeq(es, IsLoss)
      avgWin == AvgOrZero(wins)
      avgLoss == MathAbs(AvgOrZero(losses))
      winRate == Div(Num(Len(wins)), Num(Len(es)))
      lossRate == Div(Num(Len(losses)), Num(Len(es)))
  IN  IF Len(es) = 0 THEN Zero
      ELSE Sub(Mul(avgWin, winRate), Mul(avgLoss, lossRate))

\* avgWin - avgLoss, without the weights winRate and lossRate
ExpectancyUnweighted(es) ==
  LET tradingDays == SelectSeq(es, IsTradingDay)
      wins == SelectSeq(tradingDays, IsWin)
      losses == SelectSeq(tradingDays, IsLoss)
      avgWin == AvgOrZero(wins)
      avgLoss == MathAbs(AvgOrZero(losses))
  IN  IF Len(tradingDays) = 0 THEN Zero
      ELSE Sub(avgWin, avgLoss)

calculateExpectancy(es) ==
  LET tradingDays == SelectSeq(es, IsTradingDay)
      wins == SelectSeq(tradingDays, IsWin)
      losses == SelectSeq(tradingDays, IsLoss)
      avgWin == AvgOrZero(wins)
      avgLoss == MathAbs(AvgOrZero(losses))
      winRate == Div(Num(Len(wins)), Num(Len(tradingDays)))
      lossRate == Div(Num(Len(losses)), Num(Len(tradingDays)))
  IN  IF Len(tradingDays) = 0 THEN Zero
      ELSE Sub(Mul(avgWin, winRate), Mul(avgLoss, lossRate))

calculateAvgWinLossRatio(es) ==
  LET wins == SelectSeq(es, IsWin)
      losses == SelectSeq(es, IsLoss)
      avgWin == AvgOrZero(wins)
      avgLoss == MathAbs(AvgOrZero(losses))
  IN  IF StrictEq(avgLoss, Zero)
      THEN (IF Gt(avgWin, Zero) THEN Infinity ELSE Zero)
      ELSE Div(avgWin, avgLoss)

getLargestWinLoss(es) ==
  LET wins == SelectSeq(es, IsWin)
      losses == SelectSeq(es, IsLoss)
      \* Math.max(...s.map(e => e.totalPL)) and Math.min of a non-empty s
      MaxTotalPL(s) ==
        s[CHOOSE i \in 1..Len(s) :
            \A j \in 1..Len(s) : Ge(s[i].totalPL, s[j].totalPL)].totalPL
      MinTotalPL(s) ==
        s[CHOOSE i \in 1..Len(s) :
            \A j \in 1..Len(s) : Le(s[i].totalPL, s[j].totalPL)].totalPL
  IN  IF Len(es) = 0 THEN [largestWin |-> Zero, largestLoss |-> Zero]
      ELSE [largestWin |-> IF Len(wins) > 0 THEN MaxTotalPL(wins) ELSE Zero,
            largestLoss |-> IF Len(losses) > 0 THEN MinTotalPL(losses) ELSE Zero]

\* currentStreak = tempLossStreak on a final loss, in place of its negation
StreakStepLossNotNegated(st, entry, last) ==
  IF Gt(entry.totalPL, Zero)
  THEN LET w == st.tempWinStreak + 1
       IN  [tempWinStreak |-> w,
            tempLossStreak |-> 0,
            longestWinStreak |-> IF w > st.longestWinStreak THEN w
                                 ELSE st.longestWinStreak,
            longestLossStreak |-> st.longestLossStreak,
            currentStreak |-> IF last THEN w ELSE st.currentStreak]
  ELSE LET l == st.tempLossStreak + 1
       IN  [tempWinStreak |-> 0,
            tempLossStreak |-> l,
            longestWinStreak |-> st.longestWinStreak,
            longestLossStreak |-> IF l > st.longestLossStreak THEN l
                                  ELSE st.longestLossStreak,
            currentStreak |-> IF last THEN l ELSE st.currentStreak]

\* one step of the forEach of getWinLossStreaks; last is TRUE at
\* index === sortedEntries.length - 1
StreakStep(st, entry, last) ==
  IF Gt(entry.totalPL, Zero)
  THEN LET w == st.tempWinStreak + 1
       IN  [tempWinStreak |-> w,
            tempLossStreak |-> 0,
            longestWinStreak |-> IF w > st.longestWinStreak THEN w
                                 ELSE st.longestWinStreak,
            longestLossStreak |-> st.longestLossStreak,
            currentStreak |-> IF last THEN w ELSE st.currentStreak]
  ELSE LET l == st.tempLossStreak + 1
       IN  [tempWinStreak |-> 0,
            tempLossStreak |-> l,
            longestWinStreak |-> st.longestWinStreak,
            longestLossStreak |-> IF l > st.longestLossStreak THEN l
                                  ELSE st.longestLossStreak,
            currentStreak |-> IF last THEN -l ELSE st.currentStreak]

RECURSIVE StreakWalk(_, _, _)
StreakWalk(s, index, st) ==
  IF index > Len(s) THEN st
  ELSE StreakWalk(s, index + 1, StreakStep(st, s[index], index = Len(s)))

\* without the filter on totalPL !== 0
StreaksKeepZeroDays(es) ==
  LET sortedEntries == sortByIdAsc(es)
      st == StreakWalk(sortedEntries, 1,
              [tempWinStreak |-> 0, tempLossStreak |-> 0, longestWinStreak |-> 0,
               longestLossStreak |-> 0, currentStreak |-> 0])
  IN  [currentStreak |-> st.currentStreak,
       longestWinStreak |-> st.longestWinStreak,
       longestLossStreak |-> st.longestLossStreak]

getWinLossStreaks(es) ==
  LET sortedEntries == SelectSeq(sortByIdAsc(es), IsTradingDay)
      st == StreakWalk(sortedEntries, 1,
              [tempWinStreak |-> 0, tempLossStreak |-> 0, longestWinStreak |-> 0,
               longestLossStreak |-> 0, currentStreak |-> 0])
  IN  [currentStreak |-> st.currentStreak,
       longestWinStreak |-> st.longestWinStreak,
       longestLossStreak |-> st.longestLossStreak]

getPLByTag(es) ==
  LET \* the inner forEach over the tags of one entry
      RECURSIVE TagTags(_, _, _)
      TagTags(tags, entry, map) ==
        IF tags = <<>> THEN map
        ELSE LET tag == Head(tags)
                 current == IF MapHas(map, tag) THEN MapGet(map, tag)
                            ELSE [pl |-> Zero, count |-> 0]
             IN  TagTags(Tail(tags), entry,
                   MapSet(map, tag,
                     [pl |-> Add(current.pl, entry.totalPL),
                      count |-> current.count + 1]))
      RECURSIVE TagEntries(_, _)
      TagEntries(s, map) ==
        IF s = <<>> THEN map
        ELSE TagEntries(Tail(s), TagTags(Head(s).tags, Head(s), map))
      tagMap == TagEntries(es, <<>>)
      rows == [i \in 1..Len(tagMap) |->
                 [tag |-> tagMap[i].key, pl |-> tagMap[i].val.pl,
                  count |-> tagMap[i].val.count]]
  IN  sortByPlDesc(rows)

calculateRecoveryFactor(es) ==
  LET netProfit == calculateCumulativePL(es)
      maxDrawdownPercent == calculateMaxDrawdown(es)
  IN  IF StrictEq(maxDrawdownPercent, Zero)
      THEN (IF Gt(netProfit, Zero) THEN Infinity ELSE Zero)
      ELSE Div(netProfit, maxDrawdownPercent)

calculateAverageTradesPerDay(es) ==
  LET IsWeekdayEntry(entry) ==
        LET date == parseDateString(entry.id)
            dayOfWeek == getDay(date)
        IN  dayOfWeek >= 1 /\ dayOfWeek <= 5
      weekdayEntries == SelectSeq(es, IsWeekdayEntry)
      totalTrades == SumNumberOfTrades(weekdayEntries)
  IN  IF Len(es) = 0 THEN Zero
      ELSE IF Len(weekdayEntries) = 0 THEN Zero
      ELSE Div(totalTrades, Num(Len(weekdayEntries)))

\* the filter of calculateMonthlyPL and getMonthlyFallingKnives
InMonth(entry, month) ==
  LET parts == split(entry.id)
      year == Number(parts[1])
      monthStr == Number(parts[2])
  IN  monthStr = getMonth(month) + 1 /\ year = getFullYear(month)

calculateMonthlyPL(es, month) ==
  LET Keep(entry) == InMonth(entry, month)
  IN  SumTotalPL(SelectSeq(es, Keep))

\* the week from Monday to Sunday
WeeklyPLFromMonday(es) ==
  LET sortedEntries == sortByIdDesc(es)
      mostRecentDate == parseDateString(sortedEntries[1].id)
      startOfWeek == NewDate(getFullYear(mostRecentDate), getMonth(mostRecentDate),
                             getDate(mostRecentDate) - getDay(mostRecentDate) + 1)
      endOfWeek == NewDate(getFullYear(startOfWeek), getMonth(startOfWeek),
                           getDate(startOfWeek) + 6)
      InWeek(entry) ==
        LET entryDate == parseDateString(entry.id)
        IN  entryDate >= startOfWeek /\ entryDate <= endOfWeek
  IN  IF Len(es) = 0 THEN Zero
      ELSE SumTotalPL(SelectSeq(es, InWeek))

\* entries are dated at local midnight, so entryDate <= endOfWeek (Saturday
\* 23:59:59.999) compares the days
calculateWeeklyPL(es) ==
  LET sortedEntries == sortByIdDesc(es)
      mostRecentDate == parseDateString(sortedEntries[1].id)
      startOfWeek == NewDate(getFullYear(mostRecentDate), getMonth(mostRecentDate),
                             getDate(mostRecentDate) - getDay(mostRecentDate))
      endOfWeek == NewDate(getFullYear(startOfWeek), getMonth(startOfWeek),
                           getDate(startOfWeek) + 6)
      InWeek(entry) ==
        LET entryDate == parseDateString(entry.id)
        IN  entryDate >= startOfWeek /\ entryDate <= endOfWeek
  IN  IF Len(es) = 0 THEN Zero
      ELSE SumTotalPL(SelectSeq(es, InWeek))

\* the first day of the month of the clock, whatever the collection holds
MostRecentMonthOfClock(es, now) ==
  IF Len(es) = 0 THEN now
  ELSE NewDate(getFullYear(now), getMonth(now), 1)

\* now is the Date that new Date() gives
getMostRecentMonthWithData(es, now) ==
  LET sortedEntries == sortByIdDesc(es)
      mostRecentDate == parseDateString(sortedEntries[1].id)
  IN  IF Len(es) = 0 THEN now
      ELSE NewDate(getFullYear(mostRecentDate), getMonth(mostRecentDate), 1)

\* entries.reduce((sum, entry) => sum + (entry.fallingKnives || 0), 0)
getTotalFallingKnives(es) ==
  LET RECURSIVE SumFallingKnives(_, _)
      SumFallingKnives(s, sum) ==
        IF s = <<>> THEN sum
        ELSE SumFallingKnives(Tail(s), Add(sum, fallingKnivesOrZero(Head(s))))
  IN  SumFallingKnives(es, Zero)

\* the same reduce over the entries of the month
getMonthlyFallingKnives(es, month) ==
  LET Keep(entry) == InMonth(entry, month)
  IN  getTotalFallingKnives(SelectSeq(es, Keep))

calculateFKWinRate(es) ==
  LET NonFK(e) == /\ ~StrictEq(e.totalPL, Zero)
                  /\ StrictEq(fallingKnivesOrZero(e), Zero)
      nonFKDays == SelectSeq(es, NonFK)
      wins == Len(SelectSeq(nonFKDays, IsWin))
  IN  IF Len(nonFKDays) = 0 THEN Zero
      ELSE Mul(Div(Num(wins), Num(Len(nonFKDays))), Num(100))

DefaultWindowSize == 20

\* s.slice(from, to) with 0-based from (inclusive) and to (exclusive)
slice(s, from, to) ==
  LET lo == IF from < 0 THEN 0 ELSE from
      hi == IF to > Len(s) THEN Len(s) ELSE to
  IN  IF hi <= lo THEN <<>> ELSE SubSeq(s, lo + 1, hi)

\* the window reaches one record further back
RollingWindowOneLonger(es, windowSize) ==
  LET sorted == sortByIdAsc(es)
      \* the body of the for loop at 0-based i
      RollingPoint(i) ==
        LET cumulative == SumTotalPL(slice(sorted, 0, i + 1))
            \* Math.max(0, i - windowSize + 1)
            windowStart == IF i - windowSize < 0 THEN 0
                           ELSE i - windowSize
            window == slice(sorted, windowStart, i + 1)
            avgPL == Div(SumTotalPL(window), Num(Len(window)))
            tradingDays == SelectSeq(window, IsTradingDay)
            wins == Len(SelectSeq(tradingDays, IsWin))
            winRate == IF Len(tradingDays) > 0
                       THEN Mul(Div(Num(wins), Num(Len(tradingDays))), Num(100))
                       ELSE Zero
        IN  [date |-> sorted[i + 1].id, avgPL |-> avgPL, winRate |-> winRate,
             cumulative |-> cumulative]
  IN  [k \in 1..Len(sorted) |-> RollingPoint(k - 1)]

calculateRollingMetrics(es, windowSize) ==
  LET sorted == sortByIdAsc(es)
      \* the body of the for loop at 0-based i
      RollingPoint(i) ==
        LET cumulative == SumTotalPL(slice(sorted, 0, i + 1))
            \* Math.max(0, i - windowSize + 1)
            windowStart == IF i - windowSize + 1 < 0 THEN 0
                           ELSE i - windowSize + 1
            window == slice(sorted, windowStart, i + 1)
            avgPL == Div(SumTotalPL(window), Num(Len(window)))
            tradingDays == SelectSeq(window, IsTradingDay)
            wins == Len(SelectSeq(tradingDays, IsWin))
            winRate == IF Len(tradingDays) > 0
                       THEN Mul(Div(Num(wins), Num(Len(tradingDays))), Num(100))
                       ELSE Zero
        IN  [date |-> sorted[i + 1].id, avgPL |-> avgPL, winRate |-> winRate,
             cumulative |-> cumulative]
  IN  [k \in 1..Len(sorted) |-> RollingPoint(k - 1)]

\* the percentage over (peak || 1), as calculateMaxDrawdown takes it
DrawdownSeriesStepOrOne(st, entry) ==
  LET cumulative == Add(st.cumulative, entry.totalPL)
      peak == IF Gt(cumulative, st.peak) THEN cumulative ELSE st.peak
      drawdownDollars == Sub(peak, cumulative)
      drawdownPercent == Mul(Div(drawdownDollars, OrElse(peak, Num(1))),
                             Num(100))
  IN  [peak |-> peak, cumulative |-> cumulative,
       results |-> Append(st.results,
                     [date |-> entry.id, drawdown |-> drawdownPercent,
                      underwater |-> drawdownDollars])]

\* one step of the forEach of calculateDrawdownSeries
DrawdownSeriesStep(st, entry) ==
  LET cumulative == Add(st.cumulative, entry.totalPL)
      peak == IF Gt(cumulative, st.peak) THEN cumulative ELSE st.peak
      drawdownDollars == Sub(peak, cumulative)
      drawdownPercent == IF Gt(peak, Zero)
                         THEN Mul(Div(drawdownDollars, peak), Num(100))
                         ELSE Zero
  IN  [peak |-> peak, cumulative |-> cumulative,
       results |-> Append(st.results,
                     [date |-> entry.id, drawdown |-> drawdownPercent,
                      underwater |-> drawdownDollars])]

calculateDrawdownSeries(es) ==
  LET sorted == sortByIdAsc(es)
      RECURSIVE DrawdownSeriesWalk(_, _)
      DrawdownSeriesWalk(s, st) ==
        IF s = <<>> THEN st
        ELSE DrawdownSeriesWalk(Tail(s), DrawdownSeriesStep(st, Head(s)))
  IN  DrawdownSeriesWalk(sorted, [peak |-> Zero, cumulative |-> Zero,
                                  results |-> <<>>]).results

\* String(n) of a non-negative integer
RECURSIVE ToChars(_)
ToChars(n) ==
  IF n < 10 THEN <<Digits[n + 1]>>
  ELSE Append(ToChars(n \div 10), Digits[(n % 10) + 1])

\* the histogram of the analytics view (Analytics.tsx, returnDistribution):
\* bins of binSize from the floor of the least return (or 0) up to, and not
\* including, the ceiling of the greatest return (or 0)
returnDistribution(es) ==
  LET returns == getReturnDistribution(es)
      binSize == 5
      \* Math.min(...returns, 0) and Math.max(...returns, 0)
      values == {returns[j] : j \in 1..Len(returns)} \cup {Zero}
      least == CHOOSE x \in values : \A y \in values : Le(x, y)
      greatest == CHOOSE x \in values : \A y \in values : Ge(x, y)
      minReturn == MathFloor(Div(least, Num(binSize))) * binSize
      \* Math.ceil(x) is -Math.floor(-x)
      maxReturn == -MathFloor(Neg(Div(greatest, Num(binSize)))) * binSize
      InBin(i, r) == Ge(r, Num(i)) /\ Lt(r, Num(i + binSize))
      \* `${i}`
      Str(i) == IF i < 0 THEN <<"-">> \o ToChars(-i) ELSE ToChars(i)
      Bin(i) ==
        [range |-> Str(i) \o <<"%", " ", "t", "o", " ">>
                          \o Str(i + binSize) \o <<"%">>,
         count |-> Cardinality({j \in 1..Len(returns) : InBin(i, returns[j])})]
  IN  [k \in 1..((maxReturn - minReturn) \div binSize) |->
         Bin(minReturn + (k - 1) * binSize)]

\* str.padStart(len, '0')
RECURSIVE padStart(_, _)
padStart(str, len) ==
  IF Len(str) >= len THEN str ELSE padStart(<<"0">> \o str, len)

\* `${date.getFullYear()}-${String(date.getMonth() + 1).padStart(2, '0')}`
MonthKey(date) ==
  ToChars(getFullYear(date)) \o <<"-">> \o padStart(ToChars(getMonth(date) + 1), 2)

calculateMonthlyReturns(es) ==
  LET \* the forEach: month key -> entries of the month
      RECURSIVE MonthMapWalk(_, _)
      MonthMapWalk(s, map) ==
        IF s = <<>> THEN map
        ELSE LET entry == Head(s)
                 date == parseDateString(entry.id)
                 monthKey == MonthKey(date)
                 monthEntries == IF MapHas(map, monthKey)
                                 THEN MapGet(map, monthKey) ELSE <<>>
             IN  MonthMapWalk(Tail(s),
                              MapSet(map, monthKey, Append(monthEntries, entry)))
      MonthRow(month, monthEntries) ==
        LET pl == SumTotalPL(monthEntries)
            trades == SumNumberOfTrades(monthEntries)
            tradingDays == SelectSeq(monthEntries, IsTradingDay)
            wins == Len(SelectSeq(tradingDays, IsWin))
            winRate == IF Len(tradingDays) > 0
                       THEN Mul(Div(Num(wins), Num(Len(tradingDays))), Num(100))
                       ELSE Zero
        IN  [month |-> month, pl |-> pl, trades |-> trades, winRate |-> winRate]
      monthMap == MonthMapWalk(es, <<>>)
      rows == [i \in 1..Len(monthMap) |->
                 MonthRow(monthMap[i].key, monthMap[i].val)]
      \* .sort((a, b) => a.month.localeCompare(b.month))
  IN  sort(rows, [i \in 1..Len(rows) |->
                    [j \in 1..Len(rows) |->
                       localeCompare(rows[i].month, rows[j].month)]])

\* a point for every record, over the records available so far
VolatilityWithPartialWindows(es, windowSize) ==
  LET sorted == sortByIdAsc(es)
      VolatilityPoint(i) ==
        LET windowStart == IF i - windowSize + 1 < 0 THEN 0
                           ELSE i - windowSize + 1
            window == slice(sorted, windowStart, i + 1)
            returns == Returns(window)
            mean == Div(SumNums(returns, Zero), Num(Len(returns)))
            variance == Div(SumSqDev(returns, mean, Zero), Num(Len(returns)))
            volatility == MathSqrt(variance)
        IN  [date |-> sorted[i + 1].id,
             volatility |-> SurdMul(volatility, MathSqrt(Num(AnnualizationDays)))]
  IN  [k \in 1..Len(sorted) |-> VolatilityPoint(k - 1)]

calculateVolatilitySeries(es, windowSize) ==
  LET sorted == sortByIdAsc(es)
      \* the body of the for loop at 0-based i
      VolatilityPoint(i) ==
        LET window == slice(sorted, i - windowSize + 1, i + 1)
            returns == Returns(window)
            mean == Div(SumNums(returns, Zero), Num(Len(returns)))
            variance == Div(SumSqDev(returns, mean, Zero), Num(Len(returns)))
            volatility == MathSqrt(variance)
        IN  [date |-> sorted[i + 1].id,
             volatility |-> SurdMul(volatility, MathSqrt(Num(AnnualizationDays)))]
      first == windowSize - 1
      count == IF Len(sorted) > first THEN Len(sorted) - first ELSE 0
  IN  [k \in 1..count |-> VolatilityPoint(first + k - 1)]

calculateCalmarRatio(es) ==
  LET sorted == sortByIdAsc(es)
      totalPL == SumTotalPL(sorted)
      dayCount == Len(sorted)
      annualizedReturn == Mul(Div(totalPL, Num(dayCount)), Num(AnnualizationDays))
      maxDrawdownPercent == calculateMaxDrawdown(es)
  IN  IF Len(es) = 0 THEN Zero
      ELSE IF StrictEq(maxDrawdownPercent, Zero)
      THEN (IF Gt(annualizedReturn, Zero) THEN Infinity ELSE Zero)
      ELSE Div(annualizedReturn, maxDrawdownPercent)

\* the days with totalPL = 0 are kept (and count as losses)
ConsecutiveKeepZeroDays(es) ==
  LET sorted == sortByIdAsc(es)
      \* the forEach; currentType is "null" before the first entry
      RECURSIVE RunsWalk(_, _)
      RunsWalk(s, run) ==
        IF s = <<>> THEN run
        ELSE LET type == IF Gt(Head(s).totalPL, Zero) THEN "win" ELSE "loss"
             IN  RunsWalk(Tail(s),
                   IF type = run.currentType
                   THEN [run EXCEPT !.currentStreak = @ + 1]
                   ELSE [results |-> IF run.currentType # "null"
                                     THEN Append(run.results,
                                            [consecutive |-> run.currentStreak,
                                             type |-> run.currentType])
                                     ELSE run.results,
                         currentType |-> type,
                         currentStreak |-> 1])
      st == RunsWalk(sorted, [results |-> <<>>, currentType |-> "null",
                              currentStreak |-> 0])
  IN  IF st.currentType # "null"
      THEN Append(st.results, [consecutive |-> st.currentStreak,
                               type |-> st.currentType])
      ELSE st.results

getConsecutiveWinsLosses(es) ==
  LET sorted == SelectSeq(sortByIdAsc(es), IsTradingDay)
      \* the forEach; currentType is "null" before the first entry
      RECURSIVE RunsWalk(_, _)
      RunsWalk(s, run) ==
        IF s = <<>> THEN run
        ELSE LET type == IF Gt(Head(s).totalPL, Zero) THEN "win" ELSE "loss"
             IN  RunsWalk(Tail(s),
                   IF type = run.currentType
                   THEN [run EXCEPT !.currentStreak = @ + 1]
                   ELSE [results |-> IF run.currentType # "null"
                                     THEN Append(run.results,
                                            [consecutive |-> run.currentStreak,
                                             type |-> run.currentType])
                                     ELSE run.results,
                         currentType |-> type,
                         currentStreak |-> 1])
      st == RunsWalk(sorted, [results |-> <<>>, currentType |-> "null",
                              currentStreak |-> 0])
  IN  IF st.currentType # "null"
      THEN Append(st.results, [consecutive |-> st.currentStreak,
                               type |-> st.currentType])
      ELSE st.results

\* the unit is the mean of the losses also when there is none (0 / 0)
RMultiplesWithoutUnitDefault(es) ==
  LET wins == SelectSeq(es, IsWin)
      losses == SelectSeq(es, IsLoss)
      avgWin == AvgOrZero(wins)
      avgLoss == MathAbs(Div(SumTotalPL(losses), Num(Len(losses))))
      rMultiples == [i \in 1..Len(es) |->
                       IF StrictEq(avgLoss, Zero) THEN Zero
                       ELSE Div(es[i].totalPL, avgLoss)]
  IN  [avgWinR |-> IF Gt(avgLoss, Zero) THEN Div(avgWin, avgLoss) ELSE Zero,
       avgLossR |-> Num(-1),
       rMultiples |-> rMultiples]

calculateRMultiples(es) ==
  LET wins == SelectSeq(es, IsWin)
      losses == SelectSeq(es, IsLoss)
      avgWin == AvgOrZero(wins)
      avgLoss == IF Len(losses) > 0
                 THEN MathAbs(Div(SumTotalPL(losses), Num(Len(losses))))
                 ELSE Num(1)
      rMultiples == [i \in 1..Len(es) |->
                       IF StrictEq(avgLoss, Zero) THEN Zero
                       ELSE Div(es[i].totalPL, avgLoss)]
  IN  [avgWinR |-> IF Gt(avgLoss, Zero) THEN Div(avgWin, avgLoss) ELSE Zero,
       avgLossR |-> Num(-1),
       rMultiples |-> rMultiples]

\* slice(0, index95 + 1)
TailLossesInclusive(sorted, index95) == slice(sorted, 0, index95 + 1)

\* sorted.slice(0, index95)
TailLosses(sorted, index95) == slice(sorted, 0, index95)

\* sorted by id in place of totalPL
RiskSortedById(es) == sortByIdAsc(es)

\* [...entries].sort((a, b) => a.totalPL - b.totalPL)
RiskSorted(es) ==
  sort(es, [i \in 1..Len(es) |->
              [j \in 1..Len(es) |-> Sign(Sub(es[i].totalPL, es[j].totalPL).n)]])

\* Math.floor(n * 0.05) and Math.floor(n * 0.01): for every n < 2000 the
\* double product floors to n div 20 and n div 100
calculateRiskMetrics(es) ==
  LET sorted == RiskSorted(es)
      index95 == MathFloor(Mul(Num(Len(sorted)), Rat(5, 100)))
      index99 == MathFloor(Mul(Num(Len(sorted)), Rat(1, 100)))
      \* sorted[index]?.totalPL || 0, index 0-based
      TotalPLAtOrZero(s, index) ==
        IF index + 1 \in 1..Len(s) THEN OrElse(s[index + 1].totalPL, Zero)
        ELSE Zero
      tailLosses == TailLosses(sorted, index95)
  IN  [valueAtRisk95 |-> TotalPLAtOrZero(sorted, index95),
       valueAtRisk99 |-> TotalPLAtOrZero(sorted, index99),
       conditionalVaR95 |->
         IF Len(tailLosses) > 0
         THEN Div(SumTotalPL(tailLosses), Num(Len(tailLosses)))
         ELSE Zero]

(***************************************************************************)
(* The collections the engine is applied to.  An id is the "yyyy-MM-dd"    *)
(* text of a calendar day; ids are unique within a collection (one         *)
(* document per day), and the collection may be in any order.              *)
(***************************************************************************)
IdOf(y, m, d) ==
  padStart(ToChars(y), 4) \o <<"-">> \o padStart(ToChars(m), 2)
    \o <<"-">> \o padStart(ToChars(d), 2)

\* Saturday 2024-01-06, Sunday 2024-01-07, Monday 2024-01-08 and Thursday
\* 2024-02-01
Dates == {IdOf(2024, 1, 6), IdOf(2024, 1, 7), IdOf(2024, 1, 8), IdOf(2024, 2, 1)}

\* the entry of a day: the trades, tags and falling knives recorded on it
EntryOn(id, totalPL) ==
  IF id = IdOf(2024, 1, 7)
  THEN WithFallingKnives(
         DayEntry(id, totalPL, <<Trade("AAPL", Num(5))>>, Num(1), <<"earnings">>),
         Num(0))
  ELSE IF id = IdOf(2024, 1, 8)
  THEN WithFallingKnives(
         DayEntry(id, totalPL, <<Trade("AAPL", Num(10)), Trade("TSLA", Num(-5))>>,
                  Num(2), <<"earnings", "gap">>),
         Num(1))
  ELSE IF id = IdOf(2024, 2, 1)
  THEN DayEntry(id, totalPL, <<Trade("TSLA", Num(5))>>, Num(1), <<"gap">>)
  ELSE DayEntry(id, totalPL, <<>>, Num(0), <<>>)

\* every collection of at most maxLen entries on distinct days of Dates with
\* totalPL among values, in every order
Collections(values, maxLen) ==
  UNION {{[i \in 1..k |-> EntryOn(f[i][1], f[i][2])] :
            f \in {g \in [1..k -> Dates \X values] :
                    \A i, j \in 1..k : i # j => g[i][1] # g[j][1]}} :
         k \in 0..maxLen}

CoreValues == {Num(-150), Num(-50), Num(0), Num(100)}

\* [+100, +50, -30, -10, -5, +20] on six consecutive days, and the same
\* entries in reverse order
StreakExample ==
  <<EntryOn(IdOf(2024, 1, 9), Num(100)), EntryOn(IdOf(2024, 1, 10), Num(50)),
    EntryOn(IdOf(2024, 1, 11), Num(-30)), EntryOn(IdOf(2024, 1, 12), Num(-10)),
    EntryOn(IdOf(2024, 1, 13), Num(-5)), EntryOn(IdOf(2024, 1, 14), Num(20))>>

Reverse(s) == [i \in 1..Len(s) |-> s[Len(s) + 1 - i]]

(***************************************************************************)
(* One call of an engine function on the collection: the functions keep no *)
(* state, so a behaviour is a collection followed by one call on it.       *)
(***************************************************************************)
\* the array itself in place of a copy of it
NoSpread(heap, arr) == [heap |-> heap, ref |-> arr]

\* [...arr]: a new array with the elements of arr.  The heap is the sequence
\* of the arrays alive, the caller's collection first; ref is the new array.
Spread(heap, arr) == [heap |-> Append(heap, heap[arr]), ref |-> Len(heap) + 1]

\* the caller's collection after a call of the function: Array.prototype.sort
\* sorts its receiver in place, and filter, reduce, forEach and map write to
\* no array
CallerArrayAfter(name, es) ==
  LET copy == Spread(<<es>>, 1)
      arr == copy.heap[copy.ref]
      n == Len(arr)
      byIdAsc == [i \in 1..n |-> [j \in 1..n |-> localeCompare(arr[i].id, arr[j].id)]]
      byIdDesc == [i \in 1..n |-> [j \in 1..n |-> localeCompare(arr[j].id, arr[i].id)]]
      byTotalPL == [i \in 1..n |->
                      [j \in 1..n |-> Sign(Sub(arr[i].totalPL, arr[j].totalPL).n)]]
      Sorted(cmp) == [copy.heap EXCEPT ![copy.ref] = sort(arr, cmp)][1]
  IN  CASE name \in {"calculateMaxDrawdown", "calculateSharpeRatio",
                     "calculateSortinoRatio", "getWinLossStreaks",
                     "calculateRecoveryFactor", "calculateRollingMetrics",
                     "calculateDrawdownSeries", "calculateVolatilitySeries",
                     "getConsecutiveWinsLosses"} -> Sorted(byIdAsc)
        [] name \in {"calculateWeeklyPL", "getMostRecentMonthWithData",
                     "calculateCalmarRatio"} ->
             IF Len(es) = 0 THEN es
             ELSE IF name = "calculateCalmarRatio" THEN Sorted(byIdAsc)
             ELSE Sorted(byIdDesc)
        [] name = "calculateRiskMetrics" -> Sorted(byTotalPL)
        [] OTHER -> es

(***************************************************************************)
(* The data hook, useFirebaseData (src/unnamed/part_009).  It holds the    *)
(* entries and the settings and writes them through to the store.  Each of *)
(* saveEntry, deleteEntry and saveSettings awaits its remote write, so a   *)
(* call is two steps: up to the await, and from the await on, when the     *)
(* write has succeeded or failed; other calls may start or resume between  *)
(* the two.  In the behaviours of the hook `entries` is the list it holds, *)
(* `op` the function that ran last, `args` its argument and `result` the   *)
(* state of its promise.  `hook` holds the documents of the store          *)
(* (remote), the settings held (settings), the calls that wait for their   *)
(* write (calls), of which no two have the same argument, and what became  *)
(* of the write of the step taken last (write).                            *)
(***************************************************************************)
MaxInFlight == 2

\* what the views hand to the hook: the entry of one of two days with one of
\* two amounts, and the settings with or without a password
HookInputs ==
  [entries |-> {EntryOn(id, totalPL) :
                  id \in {IdOf(2024, 1, 6), IdOf(2024, 1, 9)},
                  totalPL \in {Num(100), Num(-50)}},
   ids |-> {IdOf(2024, 1, 6), IdOf(2024, 1, 9)},
   settings |-> {[password |-> password, netWorth |-> 10000,
                  startingBalance |-> 10000] :
                   password \in {<<>>, <<"a", "b", "c", "d">>}}]

\* the useState initial values, in front of an empty store
HookStart ==
  [remote |-> [dayEntries |-> {}, settings |-> <<>>],
   settings |-> [password |-> <<>>, netWorth |-> 10000,
                 startingBalance |-> 10000],
   calls |-> {},
   write |-> "none"]

\* saveEntry up to its await: the write of the document entry.id is issued
SaveEntry ==
  /\ Cardinality(hook.calls) < MaxInFlight
  /\ \E entry \in HookInputs.entries :
       LET call == [fn |-> "saveEntry", arg |-> entry]
       IN  /\ call \notin hook.calls
           /\ hook' = [hook EXCEPT !.calls = @ \cup {call},
                                !.write = "issued"]
           /\ op' = "saveEntry"
           /\ args' = <<entry>>
  /\ result' = "pending"
  /\ UNCHANGED <<entries, again, gate>>

\* the local update without the filter on the id
SaveEntryResumesAppending ==
  \E call \in hook.calls, ok \in BOOLEAN :
    LET entry == call.arg
    IN  /\ call.fn = "saveEntry"
        /\ IF ok
           THEN /\ hook' = [hook EXCEPT
                              !.calls = @ \ {call},
                              !.write = "succeeded",
                              !.remote.dayEntries =
                                 {d \in @ : d.id # entry.id} \cup {entry}]
                /\ entries' = Append(entries, entry)
                /\ result' = "fulfilled"
           ELSE /\ hook' = [hook EXCEPT !.calls = @ \ {call},
                                     !.write = "failed"]
                /\ entries' = entries
                /\ result' = "rejected"
        /\ op' = "saveEntry"
        /\ args' = <<entry>>
        /\ UNCHANGED <<again, gate>>

\* saveEntry from its await on: after the write,
\* setEntries(prev => [...prev.filter(e => e.id !== entry.id), entry]); after
\* a failed write, the catch logs and throws the error again
SaveEntryResumes ==
  \E call \in hook.calls, ok \in BOOLEAN :
    LET entry == call.arg
    IN  /\ call.fn = "saveEntry"
        /\ IF ok
           THEN /\ hook' = [hook EXCEPT
                              !.calls = @ \ {call},
                              !.write = "succeeded",
                              !.remote.dayEntries =
                                 {d \in @ : d.id # entry.id} \cup {entry}]
                /\ entries' = Append(SelectSeq(entries,
                                       LAMBDA e : e.id # entry.id), entry)
                /\ result' = "fulfilled"
           ELSE /\ hook' = [hook EXCEPT !.calls = @ \ {call},
                                     !.write = "failed"]
                /\ entries' = entries
                /\ result' = "rejected"
        /\ op' = "saveEntry"
        /\ args' = <<entry>>
        /\ UNCHANGED <<again, gate>>

\* deleteEntry up to its await: the deletion of the document id is issued
DeleteEntry ==
  /\ Cardinality(hook.calls) < MaxInFlight
  /\ \E id \in HookInputs.ids :
       LET call == [fn |-> "deleteEntry", arg |-> id]
       IN  /\ call \notin hook.calls
           /\ hook' = [hook EXCEPT !.calls = @ \cup {call},
                                !.write = "issued"]
           /\ op' = "deleteEntry"
           /\ args' = <<id>>
  /\ result' = "pending"
  /\ UNCHANGED <<entries, again, gate>>

\* the local update ahead of the outcome of the write
DeleteEntryResumesUpdatingFirst ==
  \E call \in hook.calls, ok \in BOOLEAN :
    LET id == call.arg
    IN  /\ call.fn = "deleteEntry"
        /\ entries' = SelectSeq(entries, LAMBDA e : e.id # id)
        /\ IF ok
           THEN /\ hook' = [hook EXCEPT
                              !.calls = @ \ {call},
                              !.write = "succeeded",
                              !.remote.dayEntries = {d \in @ : d.id # id}]
                /\ result' = "fulfilled"
           ELSE /\ hook' = [hook EXCEPT !.calls = @ \ {call},
                                     !.write = "failed"]
                /\ result' = "rejected"
        /\ op' = "deleteEntry"
        /\ args' = <<id>>
        /\ UNCHANGED <<again, gate>>

\* deleteEntry from its await on: after the deletion,
\* setEntries(prev => prev.filter(e => e.id !== id)); after a failed one, the
\* catch logs and throws the error again
DeleteEntryResumes ==
  \E call \in hook.calls, ok \in BOOLEAN :
    LET id == call.arg
    IN  /\ call.fn = "deleteEntry"
        /\ IF ok
           THEN /\ hook' = [hook EXCEPT
                              !.calls = @ \ {call},
                              !.write = "succeeded",
                              !.remote.dayEntries = {d \in @ : d.id # id}]
                /\ entries' = SelectSeq(entries, LAMBDA e : e.id # id)
                /\ result' = "fulfilled"
           ELSE /\ hook' = [hook EXCEPT !.calls = @ \ {call},
                                     !.write = "failed"]
                /\ entries' = entries
                /\ result' = "rejected"
        /\ op' = "deleteEntry"
        /\ args' = <<id>>
        /\ UNCHANGED <<again, gate>>

\* saveSettings up to its await: the write of the document 'user' is issued
SaveSettings ==
  /\ Cardinality(hook.calls) < MaxInFlight
  /\ \E newSettings \in HookInputs.settings :
       LET call == [fn |-> "saveSettings", arg |-> newSettings]
       IN  /\ call \notin hook.calls
           /\ hook' = [hook EXCEPT !.calls = @ \cup {call},
                                !.write = "issued"]
           /\ op' = "saveSettings"
           /\ args' = <<newSettings>>
  /\ result' = "pending"
  /\ UNCHANGED <<entries, again, gate>>

\* saveSettings from its await on: after the write, setSettings(newSettings);
\* after a failed write, the catch logs and throws the error again
SaveSettingsResumes ==
  \E call \in hook.calls, ok \in BOOLEAN :
    LET newSettings == call.arg
    IN  /\ call.fn = "saveSettings"
        /\ IF ok
           THEN /\ hook' = [hook EXCEPT !.calls = @ \ {call},
                                        !.write = "succeeded",
                                        !.remote.settings = <<newSettings>>,
                                        !.settings = newSettings]
                /\ result' = "fulfilled"
           ELSE /\ hook' = [hook EXCEPT !.calls = @ \ {call},
                                     !.write = "failed"]
                /\ result' = "rejected"
        /\ op' = "saveSettings"
        /\ args' = <<newSettings>>
        /\ UNCHANGED <<entries, again, gate>>

(***************************************************************************)
(* The password gate.  useFirebaseData (src/unnamed/part_009) starts with  *)
(* loading = TRUE and settings.password = '' and loads the settings        *)
(* document once; App (src/src/App.tsx) renders PasswordProtection         *)
(* (src/src/components/PasswordProtection.tsx) when the load is over and   *)
(* nobody is authenticated.  A text is a sequence of characters.  `gate`   *)
(* holds the document's password (stored), the hook's loading and          *)
(* settings.password, App's isAuthenticated, whether the gate is mounted,  *)
(* its prop correctPassword, its state isSettingPassword, password and     *)
(* error, the handler that ran last (event), the text it submitted and the *)
(* callbacks it invoked (calls).                                           *)
(***************************************************************************)
Texts == UNION {[1..n -> {"a", "b"}] : n \in 0..MaxPasswordLen}

AppStart ==
  [stored |-> <<>>, loading |-> TRUE, settingsPassword |-> <<>>,
   isAuthenticated |-> FALSE, mounted |-> FALSE, correctPassword |-> <<>>,
   isSettingPassword |-> FALSE, password |-> <<>>, error |-> "",
   event |-> "init", submitted |-> <<>>, calls |-> <<>>]

\* mutant of handleSubmit: a new password of any length is accepted
handleSubmitAnyLength(g) ==
  LET h == [g EXCEPT !.event = "handleSubmit", !.submitted = g.password,
                     !.calls = <<>>]
  IN  IF g.isSettingPassword
      THEN [h EXCEPT !.calls = <<[fn |-> "onSetPassword", arg |-> g.password],
                                 [fn |-> "onAuthenticated", arg |-> <<>>]>>]
      ELSE IF g.password = g.correctPassword
           THEN [h EXCEPT !.calls = <<[fn |-> "onAuthenticated",
                                       arg |-> <<>>]>>]
           ELSE [h EXCEPT !.error = "Incorrect password", !.password = <<>>]

\* PasswordProtection.handleSubmit: the gate after the form is submitted
handleSubmit(g) ==
  LET h == [g EXCEPT !.event = "handleSubmit", !.submitted = g.password,
                     !.calls = <<>>]
  IN  IF g.isSettingPassword
      THEN IF Len(g.password) < 4
           THEN [h EXCEPT !.error = "Password must be at least 4 characters"]
           ELSE [h EXCEPT
                   !.calls = <<[fn |-> "onSetPassword", arg |-> g.password],
                               [fn |-> "onAuthenticated", arg |-> <<>>]>>]
      ELSE IF g.password = g.correctPassword
           THEN [h EXCEPT !.calls = <<[fn |-> "onAuthenticated",
                                       arg |-> <<>>]>>]
           ELSE [h EXCEPT !.error = "Incorrect password", !.password = <<>>]

\* useFirebaseData.loadData: the settings document is read, or the read
\* fails and the initial settings stay
LoadData ==
  /\ gate.loading
  /\ \E ok \in BOOLEAN :
       gate' = [gate EXCEPT !.loading = FALSE, !.event = "loadData",
                            !.settingsPassword =
                               IF ok THEN gate.stored ELSE <<>>]
  /\ UNCHANGED <<entries, op, args, result, again, hook>>

\* App renders the gate; useState(!correctPassword) is evaluated here only
MountPasswordProtection ==
  /\ ~gate.loading
  /\ ~gate.isAuthenticated
  /\ ~gate.mounted
  /\ gate' = [gate EXCEPT !.mounted = TRUE, !.event = "mount",
                          !.correctPassword = gate.settingsPassword,
                          !.isSettingPassword = (gate.settingsPassword = <<>>),
                          !.password = <<>>, !.error = ""]
  /\ UNCHANGED <<entries, op, args, result, again, hook>>

\* the input's onChange
HandleChange ==
  /\ gate.mounted
  /\ \E text \in Texts :
       gate' = [gate EXCEPT !.password = text, !.error = "",
                            !.event = "onChange", !.submitted = <<>>,
                            !.calls = <<>>]
  /\ UNCHANGED <<entries, op, args, result, again, hook>>

\* the form's onSubmit, with App's callbacks: handleSetPassword saves the
\* settings (the write may fail), onAuthenticated unmounts the gate
HandleSubmit ==
  /\ gate.mounted
  /\ \E saved \in BOOLEAN :
       LET h == handleSubmit(gate)
           Called(fn) == \E i \in 1..Len(h.calls) : h.calls[i].fn = fn
           password == h.calls[1].arg
           sets == Called("onSetPassword") /\ saved
       IN  gate' = [h EXCEPT
                      !.stored = IF sets THEN password ELSE @,
                      !.settingsPassword = IF sets THEN password ELSE @,
                      !.isAuthenticated = Called("onAuthenticated"),
                      !.mounted = ~Called("onAuthenticated")]
  /\ UNCHANGED <<entries, op, args, result, again, hook>>

InitGate ==
  /\ entries = <<>>
  /\ op = "init"
  /\ args = <<>>
  /\ result = <<>>
  /\ again = <<>>
  /\ gate \in {[AppStart EXCEPT !.stored = text] : text \in Texts}
  /\ hook = HookStart

NextGate ==
  \/ LoadData
  \/ MountPasswordProtection
  \/ HandleChange
  \/ HandleSubmit

SpecGate == InitGate /\ [][NextGate]_vars

\* the hook once the loadData of its mount effect is over: the store holds
\* at most one document per id and at most the settings document 'user';
\* the documents were read (in the order of their ids) and set, or a read
\* failed: that of the entries, and nothing was set, or that of the
\* settings, and only the entries were
InitHook ==
  /\ \E docs \in SUBSET HookInputs.entries,
        stored \in {<<>>} \cup {<<s>> : s \in HookInputs.settings},
        read \in {"none", "entries", "all"} :
       LET RECURSIVE Listed(_)
           Listed(S) == IF S = {} THEN <<>>
                        ELSE LET d == CHOOSE x \in S : TRUE
                             IN  <<d>> \o Listed(S \ {d})
       IN  /\ \A d, e \in docs : d.id = e.id => d = e
           /\ entries = IF read = "none" THEN <<>>
                        ELSE sortByIdAsc(Listed(docs))
           /\ hook = [HookStart EXCEPT
                        !.remote = [dayEntries |-> docs, settings |-> stored],
                        !.settings = IF read = "all" /\ stored # <<>>
                                     THEN stored[1] ELSE @]
  /\ op = "loadData"
  /\ args = <<>>
  /\ result = "fulfilled"
  /\ again = <<>>
  /\ gate = AppStart

NextHook ==
  \/ SaveEntry
  \/ SaveEntryResumes
  \/ DeleteEntry
  \/ DeleteEntryResumes
  \/ SaveSettings
  \/ SaveSettingsResumes

SpecHook == InitHook /\ [][NextHook]_vars

\* a call with the parameters params besides the collection
CallWith(name, params, value) ==
  /\ op = "init"
  /\ op' = name
  /\ args' = params
  /\ result' = value
  /\ entries' = CallerArrayAfter(name, entries)
  /\ UNCHANGED <<again, gate, hook>>

Call(name, value) == CallWith(name, <<>>, value)

CallCalculateCumulativePL ==
  Call("calculateCumulativePL", calculateCumulativePL(entries))

CallCalculateWinRate ==
  Call("calculateWinRate", calculateWinRate(entries))

CallCalculateMaxDrawdown ==
  Call("calculateMaxDrawdown", calculateMaxDrawdown(entries))

CallCalculateProfitFactor ==
  Call("calculateProfitFactor", calculateProfitFactor(entries))

CallCalculateRecoveryFactor ==
  Call("calculateRecoveryFactor", calculateRecoveryFactor(entries))

CallCalculateCalmarRatio ==
  Call("calculateCalmarRatio", calculateCalmarRatio(entries))

CallGetWinLossStreaks ==
  Call("getWinLossStreaks", getWinLossStreaks(entries))

CallGetPLByDayOfWeek ==
  Call("getPLByDayOfWeek", getPLByDayOfWeek(entries))

Init ==
  /\ entries \in Collections(CoreValues, MaxLen)
                 \cup Collections({Rat(-1, 2), Rat(1, 2), Num(2)}, MaxLenAll)
                 \cup {StreakExample, Reverse(StreakExample)}
  /\ op = "init"
  /\ args = <<>>
  /\ result = <<>>
  /\ again = <<>>
  /\ gate = AppStart
  /\ hook = HookStart

Next ==
  \/ CallCalculateCumulativePL
  \/ CallCalculateWinRate
  \/ CallCalculateMaxDrawdown
  \/ CallCalculateProfitFactor
  \/ CallCalculateRecoveryFactor
  \/ CallCalculateCalmarRatio
  \/ CallGetWinLossStreaks
  \/ CallGetPLByDayOfWeek

Spec == Init /\ [][Next]_vars

(***************************************************************************)
(* The outlier filter, applied once and then to its own result.            *)
(***************************************************************************)
CallFilterOutliers ==
  Call("filterOutliers", filterOutliers(entries))

CallFilterOutliersAgain ==
  /\ op = "filterOutliers"
  /\ op' = "filterOutliers twice"
  /\ result' = filterOutliers(result)
  /\ UNCHANGED <<entries, args, again, gate, hook>>

InitFilter ==
  /\ entries \in Collections({Num(-50), Num(9999), Num(10000), Num(15000)},
                             MaxLen)
  /\ op = "init"
  /\ args = <<>>
  /\ result = <<>>
  /\ again = <<>>
  /\ gate = AppStart
  /\ hook = HookStart

NextFilter ==
  \/ CallFilterOutliers
  \/ CallFilterOutliersAgain

SpecFilter == InitFilter /\ [][NextFilter]_vars

(***************************************************************************)
(* Risk metrics.  The percentile indices floor(n * 0.05) and               *)
(* floor(n * 0.01) leave 0 only from 20 and 100 entries on, so the         *)
(* collections include long ones: entry i (0-based) falls on the i-th day  *)
(* of a 28-day-month calendar from 2024-01-01 and carries                  *)
(* ((a * i) % m) * 10 - 200.                                               *)
(***************************************************************************)
LongCollections ==
  LET LongEntry(i, pattern) ==
        DayEntry(IdOf(2024, 1 + (i \div 28), 1 + (i % 28)),
                 Num(((pattern[1] * i) % pattern[2]) * 10 - 200),
                 <<>>, Num(0), <<>>)
      \* ascending, descending from the second entry on, scrambled, and
      \* with ties
      LongPatterns == {<<1, 101>>, <<100, 101>>, <<37, 101>>, <<7, 11>>}
      LongLens == {n \in 0..MaxLongLen : n % 20 \in {0, 1, 19}}
  IN  {[k \in 1..n |-> LongEntry(k - 1, pattern)] :
         n \in LongLens, pattern \in LongPatterns}

CallCalculateRiskMetrics ==
  Call("calculateRiskMetrics", calculateRiskMetrics(entries))

InitRisk ==
  /\ entries \in Collections(CoreValues, MaxLen) \cup LongCollections
  /\ op = "init"
  /\ args = <<>>
  /\ result = <<>>
  /\ again = <<>>
  /\ gate = AppStart
  /\ hook = HookStart

NextRisk == CallCalculateRiskMetrics

SpecRisk == InitRisk /\ [][NextRisk]_vars

(***************************************************************************)
(* Every function of the engine, with its parameters drawn from small      *)
(* sets: the window sizes, the month selector, and the clock read by       *)
(* new Date().                                                             *)
(***************************************************************************)
WindowSizes == {1, 2, DefaultWindowSize}

Months == {NewDate(2023, 11, 1), NewDate(2024, 0, 1), NewDate(2024, 1, 1)}

Clock == {NewDate(2024, 1, 1), NewDate(2025, 8, 15)}

CallCalculateAverageReturn ==
  Call("calculateAverageReturn", calculateAverageReturn(entries))

CallCalculateSharpeRatio ==
  Call("calculateSharpeRatio", calculateSharpeRatio(entries))

CallCalculateSortinoRatio ==
  Call("calculateSortinoRatio", calculateSortinoRatio(entries))

CallGetPLByTicker ==
  Call("getPLByTicker", getPLByTicker(entries))

CallGetReturnDistribution ==
  Call("getReturnDistribution", getReturnDistribution(entries))

CallCalculateExpectancy ==
  Call("calculateExpectancy", calculateExpectancy(entries))

CallCalculateAvgWinLossRatio ==
  Call("calculateAvgWinLossRatio", calculateAvgWinLossRatio(entries))

CallGetLargestWinLoss ==
  Call("getLargestWinLoss", getLargestWinLoss(entries))

CallGetPLByTag ==
  Call("getPLByTag", getPLByTag(entries))

CallCalculateAverageTradesPerDay ==
  Call("calculateAverageTradesPerDay", calculateAverageTradesPerDay(entries))

CallCalculateMonthlyPL ==
  \E month \in Months :
    CallWith("calculateMonthlyPL", <<month>>, calculateMonthlyPL(entries, month))

CallCalculateWeeklyPL ==
  Call("calculateWeeklyPL", calculateWeeklyPL(entries))

CallGetMostRecentMonthWithData ==
  \E now \in Clock :
    Call("getMostRecentMonthWithData", getMostRecentMonthWithData(entries, now))

CallGetTotalFallingKnives ==
  Call("getTotalFallingKnives", getTotalFallingKnives(entries))

CallGetMonthlyFallingKnives ==
  \E month \in Months :
    CallWith("getMonthlyFallingKnives", <<month>>,
             getMonthlyFallingKnives(entries, month))

CallCalculateFKWinRate ==
  Call("calculateFKWinRate", calculateFKWinRate(entries))

CallCalculateRollingMetrics ==
  \E windowSize \in WindowSizes :
    CallWith("calculateRollingMetrics", <<windowSize>>,
             calculateRollingMetrics(entries, windowSize))

CallCalculateDrawdownSeries ==
  Call("calculateDrawdownSeries", calculateDrawdownSeries(entries))

CallCalculateMonthlyReturns ==
  Call("calculateMonthlyReturns", calculateMonthlyReturns(entries))

CallCalculateVolatilitySeries ==
  \E windowSize \in WindowSizes :
    CallWith("calculateVolatilitySeries", <<windowSize>>,
             calculateVolatilitySeries(entries, windowSize))

CallGetConsecutiveWinsLosses ==
  Call("getConsecutiveWinsLosses", getConsecutiveWinsLosses(entries))

CallCalculateRMultiples ==
  Call("calculateRMultiples", calculateRMultiples(entries))

\* the useMemo of the analytics view that builds the histogram
CallReturnDistribution ==
  Call("returnDistribution", returnDistribution(entries))

InitAll ==
  /\ entries \in Collections({Num(-50), Num(0), Num(100)}, MaxLenAll)
                 \cup {StreakExample, Reverse(StreakExample)}
                 \cup {<<EntryOn(IdOf(2024, 1, 8), Num(100)),
                          EntryOn(IdOf(2024, 1, 6), Num(100)),
                          EntryOn(IdOf(2024, 2, 1), Num(-50)),
                          EntryOn(IdOf(2024, 1, 7), Num(0))>>}
  /\ op = "init"
  /\ args = <<>>
  /\ result = <<>>
  /\ again = <<>>
  /\ gate = AppStart
  /\ hook = HookStart

NextAll ==
  \/ CallFilterOutliers
  \/ CallCalculateCumulativePL
  \/ CallCalculateWinRate
  \/ CallCalculateAverageReturn
  \/ CallCalculateMaxDrawdown
  \/ CallCalculateProfitFactor
  \/ CallCalculateSharpeRatio
  \/ CallCalculateSortinoRatio
  \/ CallGetPLByTicker
  \/ CallGetPLByDayOfWeek
  \/ CallGetReturnDistribution
  \/ CallCalculateExpectancy
  \/ CallCalculateAvgWinLossRatio
  \/ CallGetLargestWinLoss
  \/ CallGetWinLossStreaks
  \/ CallGetPLByTag
  \/ CallCalculateRecoveryFactor
  \/ CallCalculateAverageTradesPerDay
  \/ CallCalculateMonthlyPL
  \/ CallCalculateWeeklyPL
  \/ CallGetMostRecentMonthWithData
  \/ CallGetTotalFallingKnives
  \/ CallGetMonthlyFallingKnives
  \/ CallCalculateFKWinRate
  \/ CallCalculateRollingMetrics
  \/ CallCalculateDrawdownSeries
  \/ CallCalculateMonthlyReturns
  \/ CallCalculateVolatilitySeries
  \/ CallCalculateCalmarRatio
  \/ CallGetConsecutiveWinsLosses
  \/ CallCalculateRMultiples
  \/ CallCalculateRiskMetrics
  \/ CallReturnDistribution

SpecAll == InitAll /\ [][NextAll]_vars

(***************************************************************************)
(* The ratio metrics, on collections whose totalPL is an ordinary amount   *)
(* or the largest finite number with either sign (totalPL is               *)
(* parseFloat of the text typed into the day's form, so every finite       *)
(* number can be stored).                                                  *)
(***************************************************************************)
InitRatio ==
  /\ entries \in
       Collections({Num(-50), Num(0), Num(100), MAX_VALUE, Neg(MAX_VALUE)},
                   MaxLenAll)
       \cup {<<EntryOn(IdOf(2024, 1, 6), MAX_VALUE),
               EntryOn(IdOf(2024, 1, 7), MAX_VALUE),
               EntryOn(IdOf(2024, 1, 8), Neg(MAX_VALUE)),
               EntryOn(IdOf(2024, 2, 1), Neg(MAX_VALUE))>>}
  /\ op = "init"
  /\ args = <<>>
  /\ result = <<>>
  /\ again = <<>>
  /\ gate = AppStart
  /\ hook = HookStart

NextRatio ==
  \/ CallCalculateWinRate
  \/ CallCalculateFKWinRate
  \/ CallCalculateAverageReturn
  \/ CallCalculateProfitFactor
  \/ CallCalculateSharpeRatio
  \/ CallCalculateSortinoRatio
  \/ CallCalculateExpectancy
  \/ CallCalculateAvgWinLossRatio
  \/ CallCalculateRecoveryFactor
  \/ CallCalculateCalmarRatio
  \/ CallCalculateAverageTradesPerDay

SpecRatio == InitRatio /\ [][NextRatio]_vars

(***************************************************************************)
(* A second invocation of the function that was called, on the same        *)
(* collection with the same parameters; new Date() reads the clock anew.   *)
(***************************************************************************)
Invoke(name, es, params, now) ==
  CASE name = "filterOutliers" -> filterOutliers(es)
    [] name = "calculateCumulativePL" -> calculateCumulativePL(es)
    [] name = "calculateWinRate" -> calculateWinRate(es)
    [] name = "calculateAverageReturn" -> calculateAverageReturn(es)
    [] name = "calculateMaxDrawdown" -> calculateMaxDrawdown(es)
    [] name = "calculateProfitFactor" -> calculateProfitFactor(es)
    [] name = "calculateSharpeRatio" -> calculateSharpeRatio(es)
    [] name = "calculateSortinoRatio" -> calculateSortinoRatio(es)
    [] name = "getPLByTicker" -> getPLByTicker(es)
    [] name = "getPLByDayOfWeek" -> getPLByDayOfWeek(es)
    [] name = "getReturnDistribution" -> getReturnDistribution(es)
    [] name = "calculateExpectancy" -> calculateExpectancy(es)
    [] name = "calculateAvgWinLossRatio" -> calculateAvgWinLossRatio(es)
    [] name = "getLargestWinLoss" -> getLargestWinLoss(es)
    [] name = "getWinLossStreaks" -> getWinLossStreaks(es)
    [] name = "getPLByTag" -> getPLByTag(es)
    [] name = "calculateRecoveryFactor" -> calculateRecoveryFactor(es)
    [] name = "calculateAverageTradesPerDay" -> calculateAverageTradesPerDay(es)
    [] name = "calculateMonthlyPL" -> calculateMonthlyPL(es, params[1])
    [] name = "calculateWeeklyPL" -> calculateWeeklyPL(es)
    [] name = "getMostRecentMonthWithData" -> getMostRecentMonthWithData(es, now)
    [] name = "getTotalFallingKnives" -> getTotalFallingKnives(es)
    [] name = "getMonthlyFallingKnives" -> getMonthlyFallingKnives(es, params[1])
    [] name = "calculateFKWinRate" -> calculateFKWinRate(es)
    [] name = "calculateRollingMetrics" -> calculateRollingMetrics(es, params[1])
    [] name = "calculateDrawdownSeries" -> calculateDrawdownSeries(es)
    [] name = "calculateMonthlyReturns" -> calculateMonthlyReturns(es)
    [] name = "calculateVolatilitySeries" ->
         calculateVolatilitySeries(es, params[1])
    [] name = "calculateCalmarRatio" -> calculateCalmarRatio(es)
    [] name = "getConsecutiveWinsLosses" -> getConsecutiveWinsLosses(es)
    [] name = "calculateRMultiples" -> calculateRMultiples(es)
    [] name = "calculateRiskMetrics" -> calculateRiskMetrics(es)
    [] name = "returnDistribution" -> returnDistribution(es)

CallAgain ==
  /\ op # "init"
  /\ again = <<>>
  /\ \E now \in Clock : again' = <<Invoke(op, entries, args, now)>>
  /\ entries' = CallerArrayAfter(op, entries)
  /\ UNCHANGED <<op, args, result, gate, hook>>

NextTwice ==
  \/ NextAll
  \/ CallAgain

SpecTwice == InitAll /\ [][NextTwice]_vars

(***************************************************************************)
(* What the claims speak of, stated without the engine's own operators.    *)
(***************************************************************************)
\* the calendar day number of an entry
DayNumber(e) == parseDateString(e.id)

\* the entries in calendar order
Chronological(es) ==
  [k \in 1..Len(es) |->
     es[CHOOSE i \in 1..Len(es) :
          Cardinality({j \in 1..Len(es) : DayNumber(es[j]) < DayNumber(es[i])})
            = k - 1]]

\* the sum of the totalPL of the entries of s at the indices of I
RECURSIVE SumOver(_, _)
SumOver(s, I) ==
  IF I = {} THEN Zero
  ELSE LET i == CHOOSE x \in I : \A y \in I : x >= y
       IN  Add(s[i].totalPL, SumOver(s, I \ {i}))

\* c_k: the cumulative P&L after the first k entries in calendar order
CumulativeAt(es, k) == SumOver(Chronological(es), 1..k)

NonDecreasingCumulative(es) ==
  \A k \in 1..(Len(es) - 1) : Le(CumulativeAt(es, k), CumulativeAt(es, k + 1))

\* C1 as stated: calculateMaxDrawdown is >= 0, and is 0 whenever the
\* cumulative P&L series is non-decreasing, also when it starts below 0.
C1_ZeroOnEveryNonDecreasingSeries ==
  op = "calculateMaxDrawdown" =>
    /\ Ge(result, Zero)
    /\ NonDecreasingCumulative(entries) => result = Zero

\* C1 amended: calculateMaxDrawdown is >= 0, and is 0 whenever the cumulative
\* P&L series is non-decreasing and its first value is not below 0 (the
\* running peak starts at 0).
C1_ZeroOnNonDecreasingSeriesFromZero ==
  op = "calculateMaxDrawdown" =>
    /\ Ge(result, Zero)
    /\ (/\ NonDecreasingCumulative(entries)
        /\ (entries # <<>> => Ge(CumulativeAt(entries, 1), Zero)))
       => result = Zero

C1_Witness ==
  /\ op = "calculateMaxDrawdown"
  /\ Len(entries) = 3
  /\ NonDecreasingCumulative(entries)
  /\ Gt(CumulativeAt(entries, 1), Zero)
  /\ Gt(CumulativeAt(entries, 3), CumulativeAt(entries, 1))
  /\ entries # Chronological(entries)
  /\ result = Zero

PositiveSum(es) == SumOver(es, {i \in 1..Len(es) : Gt(es[i].totalPL, Zero)})

NegativeSum(es) == SumOver(es, {i \in 1..Len(es) : Lt(es[i].totalPL, Zero)})

AnnualizedReturn(es) ==
  Mul(Div(SumOver(es, 1..Len(es)), Num(Len(es))), Num(252))

\* r is +Infinity exactly when denom is 0 and numer > 0, is 0 when denom is 0
\* and numer is not > 0, and is never NaN
RatioContract(r, numer, denom) ==
  /\ ~IsNaN(r)
  /\ (r = Infinity) <=> (denom = Zero /\ Gt(numer, Zero))
  /\ (denom = Zero /\ ~Gt(numer, Zero)) => r = Zero

TradingSigns(es) ==
  LET days == SelectSeq(Chronological(es), LAMBDA e : e.totalPL # Zero)
  IN  [i \in 1..Len(days) |-> Sign(days[i].totalPL.n)]

\* the length of the longest run of sg in s
LongestRun(s, sg) ==
  CHOOSE L \in 0..Len(s) :
    /\ L = 0 \/ \E i \in 1..(Len(s) - L + 1) : \A j \in i..(i + L - 1) : s[j] = sg
    /\ \A M \in (L + 1)..Len(s) :
         ~\E i \in 1..(Len(s) - M + 1) : \A j \in i..(i + M - 1) : s[j] = sg

\* the length of the run that ends at the last element, signed by its type
SignedLastRun(s) ==
  IF s = <<>> THEN 0
  ELSE LET n == Len(s)
           L == CHOOSE K \in 1..n :
                  /\ \A j \in (n - K + 1)..n : s[j] = s[n]
                  /\ (K < n => s[n - K] # s[n])
       IN  s[n] * L

\* C6: over the non-zero days in calendar order, getWinLossStreaks gives the
\* longest run of wins, the longest run of losses, and the run that ends at
\* the last day as +length (wins) or -length (losses), 0 when none remains.
C6_StreaksAreLongestRuns ==
  op = "getWinLossStreaks" =>
    LET s == TradingSigns(entries)
    IN  /\ result.longestWinStreak = LongestRun(s, 1)
        /\ result.longestLossStreak = LongestRun(s, -1)
        /\ result.currentStreak = SignedLastRun(s)

C6_Witness ==
  /\ op = "getWinLossStreaks"
  /\ entries = Reverse(StreakExample)
  /\ result = [currentStreak |-> 1, longestWinStreak |-> 2,
               longestLossStreak |-> 3]

\* C7: calculateWinRate is 100 * wins / (days with totalPL # 0), lies in
\* [0, 100], and is 0 when no day has totalPL # 0.
C7_WinRateOverTradingDays ==
  op = "calculateWinRate" =>
    LET wins == Cardinality({i \in 1..Len(entries) : entries[i].totalPL.n > 0})
        trading == Cardinality({i \in 1..Len(entries) : entries[i].totalPL.n # 0})
    IN  /\ IsFinite(result)
        /\ 0 <= result.n
        /\ result.n <= 100 * result.d
        /\ IF trading = 0 THEN result = Zero
           ELSE result.n * trading = 100 * wins * result.d

C7_Witness ==
  /\ op = "calculateWinRate"
  /\ Len(entries) = 3
  /\ {entries[i].totalPL : i \in 1..3} = {Num(100), Num(-50), Num(0)}
  /\ result = Num(50)

WeekdayOf(id) ==
  CASE id = IdOf(2024, 1, 6) -> 6
    [] id = IdOf(2024, 1, 7) -> 0
    [] id = IdOf(2024, 1, 8) -> 1
    [] id = IdOf(2024, 2, 1) -> 4
    [] id = IdOf(2024, 1, 9) -> 2
    [] id = IdOf(2024, 1, 10) -> 3
    [] id = IdOf(2024, 1, 11) -> 4
    [] id = IdOf(2024, 1, 12) -> 5
    [] id = IdOf(2024, 1, 13) -> 6
    [] id = IdOf(2024, 1, 14) -> 0

AscendingValues(es) ==
  [k \in 1..Len(es) |->
     es[CHOOSE i \in 1..Len(es) :
          Cardinality({j \in 1..Len(es) :
             \/ Lt(es[j].totalPL, es[i].totalPL)
             \/ (es[j].totalPL = es[i].totalPL /\ j < i)}) = k - 1].totalPL]

\* the mean of the first k values of a sequence of numbers, k >= 1
MeanOfFirst(vals, k) == Div(SumNums(SubSeq(vals, 1, k), Zero), Num(k))

\* C3 as stated: conditionalVaR95 is the mean totalPL of the records at or
\* below index floor(n * 0.05) of the ascending order, that record included.
C3_TailIncludesTheIndex ==
  (op = "calculateRiskMetrics" /\ entries # <<>>) =>
    result.conditionalVaR95 =
      MeanOfFirst(AscendingValues(entries), (Len(entries) * 5) \div 100 + 1)

\* C3 amended: conditionalVaR95 is the mean totalPL of the floor(n * 0.05)
\* records strictly below index floor(n * 0.05) of the ascending order (the
\* record at that index excluded), and 0 when floor(n * 0.05) is 0.
C3_TailExcludesTheIndex ==
  op = "calculateRiskMetrics" =>
    LET index95 == (Len(entries) * 5) \div 100
    IN  result.conditionalVaR95 =
          IF index95 = 0 THEN Zero
          ELSE MeanOfFirst(AscendingValues(entries), index95)

C3_Witness ==
  /\ op = "calculateRiskMetrics"
  /\ Len(entries) = 100
  /\ entries[1].totalPL = Num(-200)
  /\ entries[2].totalPL = Num(170)
  /\ result.conditionalVaR95 = Num(-180)

\* C4: for a non-empty collection, valueAtRisk95 and valueAtRisk99 are the
\* totalPL at 0-based indices floor(n * 0.05) and floor(n * 0.01) of the
\* ascending order by totalPL, whatever the input order.
C4_VaRAtPercentileIndex ==
  (op = "calculateRiskMetrics" /\ entries # <<>>) =>
    LET asc == AscendingValues(entries)
    IN  /\ result.valueAtRisk95 = asc[(Len(entries) * 5) \div 100 + 1]
        /\ result.valueAtRisk99 = asc[Len(entries) \div 100 + 1]

C4_Witness ==
  /\ op = "calculateRiskMetrics"
  /\ Len(entries) = 100
  /\ entries[1].totalPL = Num(-200)
  /\ entries[2].totalPL = Num(170)
  /\ result.valueAtRisk95 = Num(-150)
  /\ result.valueAtRisk99 = Num(-190)

ZeroScalarOps ==
  {"calculateCumulativePL", "calculateWinRate", "calculateAverageReturn",
   "calculateMaxDrawdown", "calculateProfitFactor", "calculateExpectancy",
   "calculateAvgWinLossRatio", "calculateRecoveryFactor",
   "calculateAverageTradesPerDay", "calculateMonthlyPL", "calculateWeeklyPL",
   "getTotalFallingKnives", "getMonthlyFallingKnives", "calculateFKWinRate",
   "calculateCalmarRatio"}

EmptySeriesOps ==
  {"filterOutliers", "getPLByTicker", "getPLByTag", "getReturnDistribution",
   "calculateRollingMetrics", "calculateDrawdownSeries",
   "calculateMonthlyReturns", "calculateVolatilitySeries",
   "getConsecutiveWinsLosses"}

\* what every function other than calculateRMultiples gives on the empty
\* collection
EmptyDefaults ==
  /\ op \in ZeroScalarOps => result = Zero
  /\ op \in {"calculateSharpeRatio", "calculateSortinoRatio"} =>
       (result.sgn = 0 /\ result.sq = Zero)
  /\ op = "getLargestWinLoss" =>
       result = [largestWin |-> Zero, largestLoss |-> Zero]
  /\ op = "getWinLossStreaks" =>
       result = [currentStreak |-> 0, longestWinStreak |-> 0,
                 longestLossStreak |-> 0]
  /\ op = "calculateRiskMetrics" =>
       result = [valueAtRisk95 |-> Zero, valueAtRisk99 |-> Zero,
                 conditionalVaR95 |-> Zero]
  /\ op \in EmptySeriesOps => result = <<>>

\* C5 as stated: on the empty collection every scalar metric and every
\* numeric field of the struct results, those of calculateRMultiples
\* included, is 0, and every series function gives the empty sequence.
C5_EverythingZeroOnEmpty ==
  entries = <<>> =>
    /\ EmptyDefaults
    /\ op = "calculateRMultiples" =>
         (result.avgWinR = Zero /\ result.avgLossR = Zero)

\* C5 amended: on the empty collection every scalar metric and every numeric
\* field of the struct results is 0, except avgLossR of calculateRMultiples,
\* which is the constant -1; every series function (and rMultiples) gives the
\* empty sequence.
C5_ZeroOnEmptyExceptAvgLossR ==
  entries = <<>> =>
    /\ EmptyDefaults
    /\ op = "calculateRMultiples" =>
         result = [avgWinR |-> Zero, avgLossR |-> Num(-1), rMultiples |-> <<>>]

C5_Witness ==
  /\ entries = <<>>
  /\ op = "calculateRMultiples"
  /\ result.avgWinR = Zero
  /\ result.avgLossR = Num(-1)

\* the entries with totalPL < 10000, in their original order
BelowThresholdInOrder(es) ==
  LET keep == {i \in 1..Len(es) : es[i].totalPL.n < 10000 * es[i].totalPL.d}
  IN  [k \in 1..Cardinality(keep) |->
         es[CHOOSE i \in keep : Cardinality({j \in keep : j < i}) = k - 1]]

\* C9: filterOutliers keeps exactly the records with totalPL < 10000 in their
\* original order (10000 itself is removed), and filtering its result again
\* gives the same sequence.
C9_FilterKeepsBelowThreshold ==
  op \in {"filterOutliers", "filterOutliers twice"} =>
    result = BelowThresholdInOrder(entries)

C9_Witness ==
  /\ op = "filterOutliers twice"
  /\ Len(entries) = 3
  /\ entries[1].totalPL = Num(10000)
  /\ entries[2].totalPL = Num(9999)
  /\ entries[3].totalPL = Num(15000)
  /\ result = <<entries[2]>>

(***************************************************************************)
(* The caller's collection across a call.                                  *)
(***************************************************************************)
\* C11: no call of an engine function changes the caller's collection: it
\* holds the same records in the same order with the same field values after
\* the call as before it.
C11_CallerCollectionUnchanged == [][entries' = entries]_vars

\* calculateRiskMetrics, which sorts by totalPL, has been called on a
\* collection that is neither in totalPL order nor in id order
C11_Witness ==
  /\ op = "calculateRiskMetrics"
  /\ Len(entries) = 2
  /\ entries # RiskSorted(entries)
  /\ entries # sortByIdAsc(entries)
  /\ result.valueAtRisk95 = RiskSorted(entries)[1].totalPL

C13_RatioMetricsNeverNaN ==
  /\ op \in {"calculateSharpeRatio", "calculateSortinoRatio"} =>
       ~IsNaN(result.sq)
  /\ op \in {"calculateWinRate", "calculateFKWinRate", "calculateAverageReturn",
              "calculateProfitFactor", "calculateExpectancy",
              "calculateAvgWinLossRatio", "calculateRecoveryFactor",
              "calculateCalmarRatio", "calculateAverageTradesPerDay"} =>
       ~IsNaN(result)

(***************************************************************************)
(* The password gate's contract.                                           *)
(***************************************************************************)
\* what a submit did: the text submitted, whether a password was stored
\* for the gate, and whether onAuthenticated was invoked
SubmitAuthenticated ==
  \E i \in 1..Len(gate.calls) : gate.calls[i].fn = "onAuthenticated"

SubmitAllowed ==
  \/ gate.correctPassword # <<>> /\ gate.submitted = gate.correctPassword
  \/ gate.correctPassword = <<>> /\ Len(gate.submitted) >= 4

Largest(S) == CHOOSE p \in S : \A q \in S : Ge(p, q)

\* the largest cumulative P&L among the first k entries in calendar order,
\* starting from 0
PeakAt(es, k) == Largest({CumulativeAt(es, j) : j \in 1..k} \cup {Zero})

\* (peak - cumulative) / divisor * 100 after k entries; the divisor is
\* max(peak, 1) when atLeastOne, and else the peak, or 1 for a peak of 0
DrawdownAt(es, k, atLeastOne) ==
  LET peak == PeakAt(es, k)
      divisor == IF peak = Zero \/ (atLeastOne /\ Lt(peak, Num(1)))
                 THEN Num(1) ELSE peak
  IN  Mul(Div(Sub(peak, CumulativeAt(es, k)), divisor), Num(100))

\* C15 as stated: calculateMaxDrawdown is the maximum over the records in
\* ascending id order of (peak - cumulative) / max(peak, 1) * 100, so that a
\* peak between 0 and 1 is divided by 1.
C15_DrawdownDividesByMaxOfPeakAndOne ==
  op = "calculateMaxDrawdown" =>
    result = Largest({DrawdownAt(entries, k, TRUE) : k \in 1..Len(entries)}
                     \cup {Zero})

\* C15 (amended): calculateMaxDrawdown is the maximum over the records in
\* ascending id order of (peak - cumulative) / divisor * 100, where the
\* divisor is the peak itself whenever the peak is not 0 (also for a peak
\* strictly between 0 and 1), and 1 when the peak is 0.
C15_DrawdownDividesByPeakUnlessZero ==
  op = "calculateMaxDrawdown" =>
    result = Largest({DrawdownAt(entries, k, FALSE) : k \in 1..Len(entries)}
                     \cup {Zero})

\* a peak of 1/2 lost entirely is a drawdown of 100 percent
C15_Witness ==
  /\ op = "calculateMaxDrawdown"
  /\ Len(entries) = 2
  /\ PeakAt(entries, 1) = Rat(1, 2)
  /\ CumulativeAt(entries, 2) = Zero
  /\ result = Num(100)

(***************************************************************************)
(* The Sortino ratio as a formula over the set of downside returns.        *)
(***************************************************************************)
\* the indices of the entries whose totalPL is strictly below the mean
DownsideOf(es) ==
  LET mean == Div(SumOver(es, 1..Len(es)), Num(Len(es)))
  IN  {i \in 1..Len(es) : Lt(es[i].totalPL, mean)}

\* the sum of the squared deviations from the mean of the entries at I
SumSqDevOver(es, I) ==
  LET mean == Div(SumOver(es, 1..Len(es)), Num(Len(es)))
      RECURSIVE Walk(_)
      Walk(J) ==
        IF J = {} THEN Zero
        ELSE LET i == CHOOSE x \in J : TRUE
                 dev == Sub(es[i].totalPL, mean)
             IN  Add(Mul(dev, dev), Walk(J \ {i}))
  IN  Walk(I)

\* C16: on a non-empty collection calculateSortinoRatio is +Infinity when no
\* totalPL is strictly below the mean and the mean is > 0, is 0 when none is
\* below and the mean is <= 0, and otherwise is the mean divided by the
\* square root of (sum of squared deviations of the below-mean values) / N,
\* N the number of all records, annualized by sqrt(252): the result has the
\* sign of the mean and its square is mean^2 * 252 over that variance.
C16_SortinoDownsideOverFullCount ==
  (op = "calculateSortinoRatio" /\ entries # <<>>) =>
    LET N == Len(entries)
        mean == Div(SumOver(entries, 1..N), Num(N))
        downside == DownsideOf(entries)
        downsideVariance == Div(SumSqDevOver(entries, downside), Num(N))
    IN  IF downside = {}
        THEN result = (IF Gt(mean, Zero) THEN SurdOfNum(Infinity)
                       ELSE SurdOfNum(Zero))
        ELSE /\ result.sgn = Sign(mean.n)
             /\ result.sq = Div(Mul(Mul(mean, mean), Num(AnnualizationDays)),
                                downsideVariance)

\* four of six returns are below the mean of 125/6
C16_Witness ==
  /\ op = "calculateSortinoRatio"
  /\ Len(entries) = 6
  /\ Cardinality(DownsideOf(entries)) = 4
  /\ result.sgn = 1
  /\ IsFinite(result.sq)

(***************************************************************************)
(* Expectancy as a formula over the sets of winning and losing days.       *)
(***************************************************************************)
\* C17: calculateExpectancy is (avgWin * winRate) - (avgLoss * lossRate),
\* with avgWin the mean of the positive totalPL (0 if none), avgLoss the
\* absolute mean of the negative totalPL (0 if none), and winRate and
\* lossRate the fractions of the days with totalPL # 0 that are wins and
\* losses; it is 0 when no day has totalPL # 0.
C17_ExpectancyOverTradingDays ==
  op = "calculateExpectancy" =>
    LET W == {i \in 1..Len(entries) : Gt(entries[i].totalPL, Zero)}
        L == {i \in 1..Len(entries) : Lt(entries[i].totalPL, Zero)}
        T == Cardinality(W) + Cardinality(L)
        avgWin == IF W = {} THEN Zero
                  ELSE Div(SumOver(entries, W), Num(Cardinality(W)))
        avgLoss == IF L = {} THEN Zero
                   ELSE MathAbs(Div(SumOver(entries, L), Num(Cardinality(L))))
        winRate == Rat(Cardinality(W), T)
        lossRate == Rat(Cardinality(L), T)
    IN  IF T = 0 THEN result = Zero
        ELSE result = Sub(Mul(avgWin, winRate), Mul(avgLoss, lossRate))

\* a win of 100 and a day without P&L: one trading day, expectancy 100
C17_Witness ==
  /\ op = "calculateExpectancy"
  /\ Len(entries) = 2
  /\ \E i \in 1..2 : entries[i].totalPL = Zero
  /\ \E i \in 1..2 : entries[i].totalPL = Num(100)
  /\ result = Num(100)

(***************************************************************************)
(* P&L by ticker as sums over the trades of a symbol.                      *)
(***************************************************************************)
\* the trades of the collection, as pairs <<entry index, trade index>>
TradesOf(es) ==
  UNION {{<<i, j>> : j \in 1..Len(es[i].trades)} : i \in 1..Len(es)}

TradesOfSymbol(es, symbol) ==
  {p \in TradesOf(es) : es[p[1]].trades[p[2]].symbol = symbol}

\* the sum over the trades of P of (totalPL of the record / its trades.length)
SharesOver(es, P) ==
  LET RECURSIVE Walk(_)
      Walk(Q) ==
        IF Q = {} THEN Zero
        ELSE LET p == CHOOSE x \in Q : TRUE
                 e == es[p[1]]
             IN  Add(Div(e.totalPL, Num(Len(e.trades))), Walk(Q \ {p}))
  IN  Walk(P)

\* C18: getPLByTicker returns one row per distinct trade symbol, whose pl is
\* the sum over the trades with that symbol of (the record's totalPL / the
\* record's trades.length) and whose trades is the number of those trades;
\* the rows are ordered by pl descending; a record without trades
\* contributes to no row, and no pl is NaN or infinite.
C18_TickerRowsAreSharesPerSymbol ==
  op = "getPLByTicker" =>
    LET Symbols == {entries[p[1]].trades[p[2]].symbol : p \in TradesOf(entries)}
    IN  /\ Len(result) = Cardinality(Symbols)
        /\ \A symbol \in Symbols :
             \E i \in 1..Len(result) :
               /\ result[i].ticker = symbol
               /\ result[i].pl = SharesOver(entries,
                                            TradesOfSymbol(entries, symbol))
               /\ result[i].trades
                    = Cardinality(TradesOfSymbol(entries, symbol))
        /\ \A i, j \in 1..Len(result) :
             i < j => Ge(result[i].pl, result[j].pl)
        /\ \A i \in 1..Len(result) : IsFinite(result[i].pl)

\* AAPL traded on two days (100 and half of 100), TSLA once (half of 100)
C18_Witness ==
  /\ op = "getPLByTicker"
  /\ Len(entries) = 2
  /\ Cardinality(TradesOf(entries)) = 3
  /\ result = <<[ticker |-> "AAPL", pl |-> Num(150), trades |-> 2],
                [ticker |-> "TSLA", pl |-> Num(50), trades |-> 1]>>

(***************************************************************************)
(* Weekly P&L over the calendar week of the latest record.                 *)
(***************************************************************************)
\* the Sunday that starts the week of a day of the collections, read off the
\* calendar
SundayOf(id) ==
  CASE id = IdOf(2024, 1, 6) -> IdOf(2023, 12, 31)
    [] id \in {IdOf(2024, 1, d) : d \in 7..13} -> IdOf(2024, 1, 7)
    [] id = IdOf(2024, 1, 14) -> IdOf(2024, 1, 14)
    [] id = IdOf(2024, 2, 1) -> IdOf(2024, 1, 28)

DrawdownPointAt(es, k) ==
  LET peak == PeakAt(es, k)
      underwater == Sub(peak, CumulativeAt(es, k))
  IN  [date |-> Chronological(es)[k].id,
       drawdown |-> IF Gt(peak, Zero)
                    THEN Mul(Div(underwater, peak), Num(100)) ELSE Zero,
       underwater |-> underwater]

SignsOfSegments(segments) ==
  LET RECURSIVE Walk(_)
      Walk(s) ==
        IF s = <<>> THEN <<>>
        ELSE [i \in 1..Head(s).consecutive |->
                IF Head(s).type = "win" THEN 1 ELSE -1] \o Walk(Tail(s))
  IN  Walk(segments)

\* C23: getConsecutiveWinsLosses returns, in calendar order, one segment per
\* maximal run of same-signed records once the records with totalPL = 0 are
\* removed: the segments spell out the signs of the non-zero days, adjacent
\* segments differ in type, every length is >= 1, and the lengths sum to the
\* number of records with totalPL # 0.
C23_SegmentsAreMaximalRuns ==
  op = "getConsecutiveWinsLosses" =>
    /\ \A i \in 1..Len(result) :
         result[i].consecutive >= 1 /\ result[i].type \in {"win", "loss"}
    /\ \A i \in 1..(Len(result) - 1) : result[i].type # result[i + 1].type
    /\ SignsOfSegments(result) = TradingSigns(entries)
    /\ Len(SignsOfSegments(result))
         = Cardinality({i \in 1..Len(entries) : entries[i].totalPL # Zero})

\* 100, 0, 100, -50: the day without P&L does not break the run of two wins
C23_Witness ==
  /\ op = "getConsecutiveWinsLosses"
  /\ Len(entries) = 4
  /\ \E i \in 1..4 : entries[i].totalPL = Zero
  /\ result = <<[consecutive |-> 2, type |-> "win"],
                [consecutive |-> 1, type |-> "loss"]>>

(***************************************************************************)
(* R-multiples as quotients by the average loss.                           *)
(***************************************************************************)
\* the R-multiples of a collection for a unit avgLoss
RMultiplesFor(es, avgLoss) ==
  LET W == {i \in 1..Len(es) : Gt(es[i].totalPL, Zero)}
      avgWin == IF W = {} THEN Zero
                ELSE Div(SumOver(es, W), Num(Cardinality(W)))
  IN  [avgWinR |-> Div(avgWin, avgLoss),
       avgLossR |-> Num(-1),
       rMultiples |-> [i \in 1..Len(es) |-> Div(es[i].totalPL, avgLoss)]]

\* the mean magnitude of the records with totalPL < 0 (0 / 0 if none)
AverageLossMagnitude(es) ==
  LET L == {i \in 1..Len(es) : Lt(es[i].totalPL, Zero)}
  IN  MathAbs(Div(SumOver(es, L), Num(Cardinality(L))))

\* C24 as stated: calculateRMultiples returns avgLossR = -1, one rMultiple
\* per record in input order equal to totalPL / avgLoss, and avgWinR =
\* avgWin / avgLoss, avgLoss being the average magnitude of the records with
\* totalPL < 0 and avgWin the mean of those with totalPL > 0 (0 if none),
\* on every collection.
C24_RMultiplesOverAverageLoss ==
  op = "calculateRMultiples" =>
    result = RMultiplesFor(entries, AverageLossMagnitude(entries))

\* C24 (amended): the same, with avgLoss = 1 when no record has
\* totalPL < 0.
C24_RMultiplesOverAverageLossOrOne ==
  op = "calculateRMultiples" =>
    result = RMultiplesFor(entries,
               IF \E i \in 1..Len(entries) : Lt(entries[i].totalPL, Zero)
               THEN AverageLossMagnitude(entries) ELSE Num(1))

\* without a losing day the unit is 1: the R-multiples are the amounts
C24_Witness ==
  /\ op = "calculateRMultiples"
  /\ Len(entries) = 2
  /\ entries[1].totalPL = Num(100)
  /\ entries[2].totalPL = Zero
  /\ result = [avgWinR |-> Num(100), avgLossR |-> Num(-1),
               rMultiples |-> <<Num(100), Zero>>]

(***************************************************************************)
(* The histogram of the trade returns.                                     *)
(***************************************************************************)
\* C25: the histogram built from getReturnDistribution counts every trade
\* return in exactly one bin: the bin counts sum to the number of
\* percentReturn values of the collection, also when the greatest (or only)
\* return is an exact multiple of 5.
C25_BinCountsSumToNumberOfReturns ==
  op = "returnDistribution" =>
    LET RECURSIVE SumCounts(_)
        SumCounts(bins) ==
          IF bins = <<>> THEN 0 ELSE Head(bins).count + SumCounts(Tail(bins))
    IN  SumCounts(result) = Len(getReturnDistribution(entries))

(***************************************************************************)
(* The drawdown series against the maximum drawdown.                       *)
(***************************************************************************)
\* the running peak is at least 1 after every record, in calendar order,
\* that leaves the cumulative P&L below the peak
PeakAtLeastOneWhenBelow(es) ==
  \A k \in 1..Len(es) :
    Lt(CumulativeAt(es, k), PeakAt(es, k)) => Ge(PeakAt(es, k), Num(1))

LargestSegment(segments, type) ==
  LET lengths == {segments[k].consecutive :
                    k \in {j \in 1..Len(segments) : segments[j].type = type}}
  IN  IF lengths = {} THEN 0
      ELSE CHOOSE n \in lengths : \A l \in lengths : n >= l

\* C27: getConsecutiveWinsLosses and getWinLossStreaks agree: the largest
\* win segment is longestWinStreak, the largest loss segment is
\* longestLossStreak (0 when there is no such segment), and the length of
\* the last segment, negated if it is a loss, is currentStreak (0 when there
\* is no segment).
C27_SegmentsAgreeWithStreaks ==
  op = "getConsecutiveWinsLosses" =>
    LET streaks == getWinLossStreaks(entries)
        last == result[Len(result)]
    IN  /\ streaks.longestWinStreak = LargestSegment(result, "win")
        /\ streaks.longestLossStreak = LargestSegment(result, "loss")
        /\ streaks.currentStreak =
             IF result = <<>> THEN 0
             ELSE IF last.type = "loss" THEN -last.consecutive
             ELSE last.consecutive

\* 100, 0, 100, -50: two wins around a zero day and a final loss
C27_Witness ==
  /\ op = "getConsecutiveWinsLosses"
  /\ Len(entries) = 4
  /\ Len(result) = 2
  /\ result[2].type = "loss"
  /\ getWinLossStreaks(entries) =
       [currentStreak |-> -1, longestWinStreak |-> 2, longestLossStreak |-> 1]

DistinctIds(es) == \A i, j \in 1..Len(es) : es[i].id = es[j].id => i = j

\* the step completes saveEntry or deleteEntry on the document id: the
\* records with that id become `left`, the others stay as they are
CompletesOn(id, left) ==
  /\ SelectSeq(entries', LAMBDA e : e.id = id) = left
  /\ SelectSeq(entries', LAMBDA e : e.id # id)
       = SelectSeq(entries, LAMBDA e : e.id # id)

\* C29: the entries held have pairwise distinct ids after any interleaving
\* of completed saveEntry and deleteEntry calls; a completed saveEntry(e)
\* leaves exactly one record with the id of e, which is e, a completed
\* deleteEntry(id) leaves none with that id, and the records with other ids
\* are unchanged.
C29_HeldEntriesKeepDistinctIds ==
  /\ [](DistinctIds(entries))
  /\ [][result' = "fulfilled" =>
          /\ op' = "saveEntry" => CompletesOn(args'[1].id, <<args'[1]>>)
          /\ op' = "deleteEntry" => CompletesOn(args'[1], <<>>)]_vars

\* a saveEntry for 2024-01-06 has completed while another call is in flight:
\* its record stands after that of 2024-01-09, where the load had it before
C29_Witness ==
  /\ op = "saveEntry"
  /\ result = "fulfilled"
  /\ hook.calls # {}
  /\ Len(entries) = 2
  /\ entries[1].id = IdOf(2024, 1, 9)
  /\ entries[2] = args[1]

(***************************************************************************)
(* The data hook when a remote write fails.                                *)
(***************************************************************************)
\* the store holds what the call of the step asked to write
WrittenToStore ==
  CASE op' = "saveEntry" -> args'[1] \in hook'.remote.dayEntries
    [] op' = "deleteEntry" ->
         \A d \in hook'.remote.dayEntries : d.id # args'[1]
    [] op' = "saveSettings" -> hook'.remote.settings = <<args'[1]>>

\* C30: when the remote write of saveEntry, deleteEntry or saveSettings
\* fails, the entries and the settings held are left unchanged and the
\* error is thrown again to the caller; what is held is updated only after
\* the remote write has succeeded.
C30_FailedWriteLeavesHeldStateAndRethrows ==
  [][/\ hook'.write = "failed" =>
          /\ entries' = entries
          /\ hook'.settings = hook.settings
          /\ result' = "rejected"
     /\ (entries' # entries \/ hook'.settings # hook.settings) =>
          /\ hook'.write = "succeeded"
          /\ WrittenToStore
          /\ result' = "fulfilled"]_vars

\* the deletion of a document has failed: the call is rejected and the
\* record is still held and still in the store
C30_Witness ==
  /\ op = "deleteEntry"
  /\ hook.write = "failed"
  /\ result = "rejected"
  /\ \E i \in 1..Len(entries) : entries[i].id = args[1]
  /\ \E d \in hook.remote.dayEntries : d.id = args[1]

====
